---- MODULE Spec2Model ----
(***************************************************************************)
(* A model of Diligent::DeviceObjectArchive                                *)
(* (Graphics/GraphicsEngine/include/DeviceObjectArchive.hpp).              *)
(*                                                                         *)
(* The archive is modelled at the level of bytes.  A Uint32 is the tuple   *)
(* of its four bytes in little-endian order, so that the full 32-bit range *)
(* (the magic number 0xDE00000A, the sentinel 0xFFFFFFFF) is represented   *)
(* exactly.  Positions inside an archive are natural numbers.              *)
(***************************************************************************)
EXTENDS Integers, Sequences, FiniteSets, TLC

(***************************************************************************)
(* Bytes and 32-bit unsigned integers                                      *)
(***************************************************************************)
Byte == 0..255

\* The Uint32 with value n, for 0 <= n < 2^31.
U32(n) == <<n % 256, (n \div 256) % 256, (n \div 65536) % 256, (n \div 16777216) % 256>>

\* ~0u
AllOnes == <<255, 255, 255, 255>>

\* A Uint32 below 2^16: every offset and size that lies inside a modelled
\* archive is one, and anything larger lies outside of it.
IsSmall(u) == u[3] = 0 /\ u[4] = 0

\* The value of a small Uint32.
Val(u) == u[1] + 256 * u[2]

\* Unsigned 32-bit addition, modulo 2^32, byte by byte with carry.
AddU32(a, b) ==
    LET s1 == a[1] + b[1]
        s2 == a[2] + b[2] + (s1 \div 256)
        s3 == a[3] + b[3] + (s2 \div 256)
        s4 == a[4] + b[4] + (s3 \div 256)
    IN  <<s1 % 256, s2 % 256, s3 % 256, s4 % 256>>

\* a < b as unsigned 32-bit integers.
LessU32(a, b) ==
    \/ a[4] < b[4]
    \/ a[4] = b[4] /\ a[3] < b[3]
    \/ a[4] = b[4] /\ a[3] = b[3] /\ a[2] < b[2]
    \/ a[4] = b[4] /\ a[3] = b[3] /\ a[2] = b[2] /\ a[1] < b[1]

\* The smallest multiple of a that is >= n.
AlignUp(n, a) == ((n + a - 1) \div a) * a

\* The concatenation of a sequence of byte sequences.
RECURSIVE Flatten(_)
Flatten(ss) == IF ss = <<>> THEN <<>> ELSE Head(ss) \o Flatten(Tail(ss))

\* n bytes of value b.
Fill(n, b) == [i \in 1..n |-> b]

\* The sequence f held as a tuple of its elements.
AsTuple(f) == SubSeq(f, 1, Len(f))

\* s followed by zero bytes up to length n (n >= Len(s)).
PadTo(s, n) == s \o Fill(n - Len(s), 0)

\* The bytes of s at positions [off, off + size), positions counted from 0.
Slice(s, off, size) == SubSeq(s, off + 1, off + size)

\* The Uint32 stored in s at position off.
U32At(s, off) == Slice(s, off, 4)

(***************************************************************************)
(* Enumerations and constants of the format                                *)
(***************************************************************************)
\* enum class DeviceType
OpenGL == 0
Direct3D11 == 1
Direct3D12 == 2
Vulkan == 3
Metal_MacOS == 4
Metal_iOS == 5
DeviceTypeCount == 6
DeviceTypes == 0..(DeviceTypeCount - 1)

\* enum class BlockOffsetType has the same enumerators as DeviceType.
BlockOffsetTypeCount == 6
GetBlockOffsetType(DevType) == DevType

\* enum class ChunkType
Undefined == 0
ArchiveDebugInfo == 1
ResourceSignature == 2
GraphicsPipelineStates == 3
ComputePipelineStates == 4
RayTracingPipelineStates == 5
TilePipelineStates == 6
RenderPass == 7
Shaders == 8
ChunkTypeCount == 9
ChunkTypes == 0..(ChunkTypeCount - 1)

\* 0xDE00000A, little-endian
\* The magic number with its most significant byte lost.
HeaderMagicNumberLowBytes == <<10, 0, 0, 0>>

HeaderMagicNumber == <<10, 0, 0, 222>>
HeaderVersion == 2
DataPtrAlign == 8

\* DataHeaderBase::InvalidOffset = ~0u
InvalidOffset == AllOnes

\* The declared sizes of the fixed headers (CHECK_HEADER_SIZE).
ArchiveHeaderSize == 40
ChunkHeaderSize == 16
NamedResourceArrayHeaderSize == 8
DataHeaderBaseSize == 56
RPDataHeaderSize == 8
\* sizeof(ArchiveRegion): two Uint32
ArchiveRegionSize == 8

(***************************************************************************)
(* The fixed headers and their binary layout: the fields in declaration    *)
(* order, each Uint32 in little-endian order.                              *)
(***************************************************************************)
\* struct ArchiveHeader
ArchiveHeaderBytes(h) ==
    h.MagicNumber \o h.Version \o Flatten(h.BlockBaseOffsets) \o h.NumChunks \o AllOnes

ReadArchiveHeader(s) ==
    [MagicNumber      |-> U32At(s, 0),
     Version          |-> U32At(s, 4),
     BlockBaseOffsets |-> AsTuple([i \in 1..BlockOffsetTypeCount |-> U32At(s, 4 + 4 * i)]),
     NumChunks        |-> U32At(s, 32)]

\* struct ChunkHeader
ChunkHeader(Type, Size, Offset) == [Type |-> Type, Size |-> Size, Offset |-> Offset]

ChunkHeaderBytes(c) == c.Type \o c.Size \o c.Offset \o AllOnes

ReadChunkHeader(s, off) ==
    ChunkHeader(U32At(s, off), U32At(s, off + 4), U32At(s, off + 8))

\* struct ArchiveRegion
\* ArchiveRegion with a Size one too large, and with a Size left at 0.
ArchiveRegionOneMore(Offset, Size) == [Offset |-> Offset, Size |-> AddU32(Size, U32(1))]
ArchiveRegionNoSize(Offset, Size) == [Offset |-> Offset, Size |-> U32(0)]

ArchiveRegion(Offset, Size) == [Offset |-> Offset, Size |-> Size]

ArchiveRegionBytes(r) == r.Offset \o r.Size

\* DataHeaderBase constructed without DeviceSpecificDataOffset.fill.
DataHeaderBaseZeroOffsets(Type) ==
    [Type                     |-> Type,
     DeviceSpecificDataSize   |-> AsTuple([i \in 1..DeviceTypeCount |-> U32(0)]),
     DeviceSpecificDataOffset |-> AsTuple([i \in 1..DeviceTypeCount |-> U32(0)])]

\* struct DataHeaderBase and its constructor: every offset is InvalidOffset,
\* every size is 0.
DataHeaderBase(Type) ==
    [Type                     |-> Type,
     DeviceSpecificDataSize   |-> AsTuple([i \in 1..DeviceTypeCount |-> U32(0)]),
     DeviceSpecificDataOffset |-> AsTuple([i \in 1..DeviceTypeCount |-> InvalidOffset])]

\* GetSize, GetOffset, SetSize and SetOffset indexing or writing the wrong
\* array element.
GetSizeNextSlot(Header, DevType) ==
    Header.DeviceSpecificDataSize[((DevType + 1) % DeviceTypeCount) + 1]
GetOffsetNextSlot(Header, DevType) ==
    Header.DeviceSpecificDataOffset[((DevType + 1) % DeviceTypeCount) + 1]
SetSizePreviousSlot(Header, DevType, Size) ==
    [Header EXCEPT !.DeviceSpecificDataSize[DevType] = Size]
SetOffsetWritesSize(Header, DevType, Offset) ==
    [Header EXCEPT !.DeviceSpecificDataSize[DevType + 1] = Offset]

GetSize(Header, DevType) == Header.DeviceSpecificDataSize[DevType + 1]
GetOffset(Header, DevType) == Header.DeviceSpecificDataOffset[DevType + 1]
GetEndOffset(Header, DevType) == AddU32(GetOffset(Header, DevType), GetSize(Header, DevType))

\* SetOffset writing the slot of the next device type.
SetOffsetNextSlot(Header, DevType, Offset) ==
    [Header EXCEPT !.DeviceSpecificDataOffset[((DevType + 1) % DeviceTypeCount) + 1] = Offset]

SetSize(Header, DevType, Size) ==
    [Header EXCEPT !.DeviceSpecificDataSize[DevType + 1] = Size]
SetOffset(Header, DevType, Offset) ==
    [Header EXCEPT !.DeviceSpecificDataOffset[DevType + 1] = Offset]

\* DataHeaderBase written without _Padding0.
DataHeaderBaseBytesNoPadding(h) ==
    h.Type \o Flatten(h.DeviceSpecificDataSize) \o Flatten(h.DeviceSpecificDataOffset)

DataHeaderBaseBytes(h) ==
    h.Type \o AllOnes \o Flatten(h.DeviceSpecificDataSize) \o Flatten(h.DeviceSpecificDataOffset)

ReadDataHeaderBase(s, off) ==
    [Type                     |-> U32At(s, off),
     DeviceSpecificDataSize   |-> AsTuple([i \in 1..DeviceTypeCount |-> U32At(s, off + 4 + 4 * i)]),
     DeviceSpecificDataOffset |-> AsTuple([i \in 1..DeviceTypeCount |-> U32At(s, off + 28 + 4 * i)])]

\* struct RPDataHeader
RPDataHeaderBytes(Type) == Type \o AllOnes

(***************************************************************************)
(* The layout of an archive file                                           *)
(*                                                                         *)
(*   | ArchiveHeader | ChunkHeader[NumChunks] |                            *)
(*   | NamedResourceArrayHeader, NameLength[], DataSize[], DataOffset[],   *)
(*     NameData | ...           (one array per chunk; the Shaders chunk    *)
(*                               holds one ShadersDataHeader instead)      *)
(*   | ***DataHeader, resource data | ...      (one per named resource)    *)
(*   | device specific data | ...              (one block per device type) *)
(*                                                                         *)
(* A chunk is [Type, Entries], Entries a sequence of [Name, Data]: the     *)
(* name without its terminating zero and the bytes of the resource (data   *)
(* header and serialized description).  The Shaders chunk is               *)
(* [Type, Header], the debug-info chunk [Type, Info].  Blocks[d + 1] holds the bytes of device type d, <<>>   *)
(* when the archive has none.  Everything starts at a multiple of          *)
(* DataPtrAlign.                                                           *)
(***************************************************************************)
\* The sum of the first k elements of the sequence of numbers f.
RECURSIVE PrefixSum(_, _)
PrefixSum(f, k) == IF k = 0 THEN 0 ELSE f[k] + PrefixSum(f, k - 1)

NameBytes(Name) == Name \o <<0>>

\* The bytes of the named-resource array of entries E whose resources are
\* stored at the positions Offs.
NamedResourceArrayBytes(E, Offs) ==
    U32(Len(E)) \o AllOnes
      \o Flatten([i \in 1..Len(E) |-> U32(Len(E[i].Name) + 1)])
      \o Flatten([i \in 1..Len(E) |-> U32(Len(E[i].Data))])
      \o Flatten([i \in 1..Len(E) |-> U32(Offs[i])])
      \o Flatten([i \in 1..Len(E) |-> NameBytes(E[i].Name)])

NamedResourceArraySize(E) ==
    NamedResourceArrayHeaderSize + 12 * Len(E)
      + PrefixSum([i \in 1..Len(E) |-> Len(E[i].Name) + 1], Len(E))

ChunkDataSize(c) ==
    IF c.Type = Shaders THEN DataHeaderBaseSize
    ELSE IF c.Type = ArchiveDebugInfo THEN Len(c.Info)
    ELSE NamedResourceArraySize(c.Entries)

ChunkEntries(c) == IF c.Type \in {Shaders, ArchiveDebugInfo} THEN <<>> ELSE c.Entries

Layout(Chunks, Blocks) ==
    LET n         == Len(Chunks)
        Aligned(k) == AlignUp(k, DataPtrAlign)
        \* the chunks' arrays
        ArrSize   == [i \in 1..n |-> Aligned(ChunkDataSize(Chunks[i]))]
        ArrStart  == Aligned(ArchiveHeaderSize + ChunkHeaderSize * n)
        ArrOff(i) == ArrStart + PrefixSum(ArrSize, i - 1)
        \* the resources' data, chunk after chunk
        DataSize  == [i \in 1..n |->
                        LET E == ChunkEntries(Chunks[i])
                        IN  PrefixSum([k \in 1..Len(E) |-> Aligned(Len(E[k].Data))], Len(E))]
        DataStart == ArrStart + PrefixSum(ArrSize, n)
        DataOff(i, k) ==
            LET E == ChunkEntries(Chunks[i])
            IN  DataStart + PrefixSum(DataSize, i - 1)
                  + PrefixSum([j \in 1..Len(E) |-> Aligned(Len(E[j].Data))], k - 1)
        \* the device specific blocks
        BlockSize  == [d \in 1..BlockOffsetTypeCount |-> Aligned(Len(Blocks[d]))]
        BlockStart == DataStart + PrefixSum(DataSize, n)
        BaseOffset(d) ==
            IF Blocks[d] = <<>> THEN InvalidOffset
            ELSE U32(BlockStart + PrefixSum(BlockSize, d - 1))
        Header == [MagicNumber      |-> HeaderMagicNumber,
                   Version          |-> U32(HeaderVersion),
                   BlockBaseOffsets |-> [d \in 1..BlockOffsetTypeCount |-> BaseOffset(d)],
                   NumChunks        |-> U32(n)]
        ArrBytes(i) ==
            IF Chunks[i].Type = Shaders
            THEN DataHeaderBaseBytes(Chunks[i].Header)
            ELSE IF Chunks[i].Type = ArchiveDebugInfo
            THEN Chunks[i].Info
            ELSE LET E == Chunks[i].Entries
                 IN  NamedResourceArrayBytes(E, [k \in 1..Len(E) |-> DataOff(i, k)])
    IN  PadTo(ArchiveHeaderBytes(Header)
                \o Flatten([i \in 1..n |->
                     ChunkHeaderBytes(ChunkHeader(U32(Chunks[i].Type),
                                                  U32(ChunkDataSize(Chunks[i])),
                                                  U32(ArrOff(i))))]),
              ArrStart)
          \o Flatten([i \in 1..n |-> PadTo(ArrBytes(i), ArrSize[i])])
          \o Flatten([i \in 1..n |->
               LET E == ChunkEntries(Chunks[i])
               IN  Flatten([k \in 1..Len(E) |-> PadTo(E[k].Data, Aligned(Len(E[k].Data)))])])
          \o Flatten([d \in 1..BlockOffsetTypeCount |-> PadTo(Blocks[d], BlockSize[d])])

(***************************************************************************)
(* The byte source (IArchive) and the archive blocks                       *)
(***************************************************************************)
\* IArchive::Read(Offset, Size) succeeds only inside the archive.
ReadFits(a, off, size) == off + size <= Len(a)

NullArchive == "nullptr"
ThisArchive == "m_pArchive"

\* ArchiveBlock() and ArchiveBlock(_pArchive, _Offset, _Size)
EmptyArchiveBlock ==
    [pArchive |-> NullArchive, Offset |-> InvalidOffset, Size |-> U32(0), Memory |-> <<>>]
ArchiveBlock(pArchive, Offset, Size) ==
    [pArchive |-> pArchive, Offset |-> Offset, Size |-> Size, Memory |-> <<>>]

\* ArchiveBlock::IsValid
IsValid(b) == b.pArchive # NullArchive /\ b.Offset # InvalidOffset /\ b.Size # U32(0)

(***************************************************************************)
(* DeviceObjectArchive(IArchive* pArchive): the parser                     *)
(***************************************************************************)
\* The names of the maps of NamedResourcesMap, and the chunk each is read from.
ResMapNames == {"Sign", "RenderPass", "GraphPSO", "CompPSO", "TilePSO", "RayTrPSO"}

ChunkTypeOfMap(m) ==
    CASE m = "Sign"       -> ResourceSignature
      [] m = "RenderPass" -> RenderPass
      [] m = "GraphPSO"   -> GraphicsPipelineStates
      [] m = "CompPSO"    -> ComputePipelineStates
      [] m = "TilePSO"    -> TilePipelineStates
      [] m = "RayTrPSO"   -> RayTracingPipelineStates

NamedChunkTypes == {ChunkTypeOfMap(m) : m \in ResMapNames}

EmptyMap == [x \in {} |-> x]
EmptyResMap == [m \in ResMapNames |-> EmptyMap]

\* The named-resource array stored at [off, off + size) of a: its names and
\* regions, or that it does not fit.
ReadNamedResourceArray(a, off, size) ==
    IF ~(size >= NamedResourceArrayHeaderSize /\ ReadFits(a, off, size))
    THEN [ok |-> FALSE]
    ELSE
    LET cnt == U32At(a, off)
    IN  IF ~(IsSmall(cnt) /\ NamedResourceArrayHeaderSize + 12 * Val(cnt) <= size)
        THEN [ok |-> FALSE]
        ELSE
        LET n        == Val(cnt)
            lenAt(i) == U32At(a, off + NamedResourceArrayHeaderSize + 4 * (i - 1))
            sizeAt(i) == U32At(a, off + NamedResourceArrayHeaderSize + 4 * n + 4 * (i - 1))
            offAt(i) == U32At(a, off + NamedResourceArrayHeaderSize + 8 * n + 4 * (i - 1))
            lensOk   == \A i \in 1..n : IsSmall(lenAt(i)) /\ Val(lenAt(i)) >= 1
        IN  IF ~lensOk THEN [ok |-> FALSE]
            ELSE
            LET lens    == [i \in 1..n |-> Val(lenAt(i))]
                nameOff(i) == off + NamedResourceArrayHeaderSize + 12 * n + PrefixSum(lens, i - 1)
                fits    == NamedResourceArrayHeaderSize + 12 * n + PrefixSum(lens, n) <= size
            IN  IF ~fits THEN [ok |-> FALSE]
                ELSE
                LET names == [i \in 1..n |-> Slice(a, nameOff(i), lens[i] - 1)]
                IN  IF \E i, j \in 1..n : i # j /\ names[i] = names[j]
                    THEN [ok |-> FALSE]
                    ELSE [ok  |-> TRUE,
                          map |-> [nm \in {names[i] : i \in 1..n} |->
                                     LET i == CHOOSE k \in 1..n : names[k] = nm
                                     IN  ArchiveRegion(offAt(i), sizeAt(i))]]

\* The blocks of an archive of size total whose base offsets are Base: the
\* common data up to the first block, and every block up to the next one.
BlockEnd(Base, total, start) ==
    LET later == {Val(Base[e]) : e \in {x \in 1..BlockOffsetTypeCount :
                                          Base[x] # InvalidOffset /\ Val(Base[x]) > start}}
    IN  IF later = {} THEN total ELSE CHOOSE m \in later : \A o \in later : m <= o

FailedConstruction(err) == [ok |-> FALSE, Error |-> err]

Construct(a) ==
    IF ~ReadFits(a, 0, ArchiveHeaderSize)
    THEN FailedConstruction("Failed to read archive header")
    ELSE
    LET Header == ReadArchiveHeader(a)
    IN  IF Header.MagicNumber # HeaderMagicNumber
        THEN FailedConstruction("Archive header magic number is incorrect")
        ELSE IF Header.Version # U32(HeaderVersion)
        THEN FailedConstruction("Archive version is not supported")
        ELSE IF ~(IsSmall(Header.NumChunks)
                  /\ ReadFits(a, ArchiveHeaderSize, ChunkHeaderSize * Val(Header.NumChunks)))
        THEN FailedConstruction("Failed to read chunk headers")
        ELSE
        LET n      == Val(Header.NumChunks)
            Chunks == [i \in 1..n |-> ReadChunkHeader(a, ArchiveHeaderSize + ChunkHeaderSize * (i - 1))]
            Base   == Header.BlockBaseOffsets
            known  == \A i \in 1..n :
                        /\ Chunks[i].Type \in {U32(t) : t \in ChunkTypes \ {Undefined}}
                        /\ IsSmall(Chunks[i].Size) /\ IsSmall(Chunks[i].Offset)
            unique == \A i, j \in 1..n : i # j => Chunks[i].Type # Chunks[j].Type
            baseOk == \A d \in 1..BlockOffsetTypeCount :
                        Base[d] # InvalidOffset => IsSmall(Base[d]) /\ Val(Base[d]) <= Len(a)
        IN  IF ~known THEN FailedConstruction("Unknown chunk type")
            ELSE IF ~unique THEN FailedConstruction("Multiple chunks of the same type")
            ELSE IF ~baseOk THEN FailedConstruction("Invalid block base offset")
            ELSE
            LET ChunkOf(t) == CHOOSE i \in 1..n : Chunks[i].Type = U32(t)
                Has(t)     == \E i \in 1..n : Chunks[i].Type = U32(t)
                Arr(t)     == ReadNamedResourceArray(a, Val(Chunks[ChunkOf(t)].Offset),
                                                     Val(Chunks[ChunkOf(t)].Size))
                arraysOk   == \A t \in NamedChunkTypes : Has(t) => Arr(t).ok
                shadersOk  == Has(Shaders) =>
                                /\ ReadFits(a, Val(Chunks[ChunkOf(Shaders)].Offset), DataHeaderBaseSize)
                                /\ U32At(a, Val(Chunks[ChunkOf(Shaders)].Offset)) = U32(Shaders)
                debugOk    == Has(ArchiveDebugInfo) =>
                                ReadFits(a, Val(Chunks[ChunkOf(ArchiveDebugInfo)].Offset),
                                         Val(Chunks[ChunkOf(ArchiveDebugInfo)].Size))
            IN  IF ~arraysOk THEN FailedConstruction("Failed to read named resources")
                ELSE IF ~shadersOk THEN FailedConstruction("Invalid shaders header")
                ELSE IF ~debugOk THEN FailedConstruction("Failed to read debug info")
                ELSE
                [ok              |-> TRUE,
                 m_pArchive      |-> a,
                 m_BaseOffsets   |-> Base,
                 m_Chunks        |-> Chunks,
                 m_DebugInfo     |-> IF Has(ArchiveDebugInfo)
                                     THEN Slice(a, Val(Chunks[ChunkOf(ArchiveDebugInfo)].Offset),
                                                Val(Chunks[ChunkOf(ArchiveDebugInfo)].Size))
                                     ELSE <<>>,
                 m_ResMap        |-> [m \in ResMapNames |->
                                        IF Has(ChunkTypeOfMap(m)) THEN Arr(ChunkTypeOfMap(m)).map
                                        ELSE EmptyMap],
                 m_ShadersHeader |-> IF Has(Shaders)
                                     THEN ReadDataHeaderBase(a, Val(Chunks[ChunkOf(Shaders)].Offset))
                                     ELSE DataHeaderBase(U32(Shaders)),
                 m_CommonData    |-> ArchiveBlock(ThisArchive, U32(0), U32(BlockEnd(Base, Len(a), 0))),
                 m_DeviceSpecific |->
                    AsTuple([d \in 1..BlockOffsetTypeCount |->
                       IF Base[d] = InvalidOffset THEN EmptyArchiveBlock
                       ELSE ArchiveBlock(ThisArchive, Base[d],
                                         U32(BlockEnd(Base, Len(a), Val(Base[d])) - Val(Base[d])))])]

(***************************************************************************)
(* The archives the model is run on                                        *)
(*                                                                         *)
(* An archive is authored from a description: its chunks, each with its    *)
(* resources [Name, Tag, Payload, Dev], where Tag is the chunk type        *)
(* written into the resource's data header, Payload the serialized         *)
(* description that follows the header and Dev[d + 1] the number of bytes  *)
(* of device specific data the resource has for device type d (0: none);   *)
(* Sh[d + 1], the sizes of the shaders compiled for device type d; and     *)
(* Pre[d + 1], the number of bytes at the start of the block of d that     *)
(* belong to no resource.  Seed makes the device specific bytes of         *)
(* different archives differ.                                              *)
(***************************************************************************)
AllRes(desc) == Flatten([i \in 1..Len(desc.Chunks) |-> desc.Chunks[i].Res])

\* The index in AllRes of resource k of chunk i.
ResIndex(desc, i, k) == PrefixSum([j \in 1..Len(desc.Chunks) |-> Len(desc.Chunks[j].Res)], i - 1) + k

\* Where the device specific data of resource idx starts in the block of d.
DevDataOffset(desc, d, idx) ==
    desc.Pre[d] + PrefixSum([j \in 1..Len(AllRes(desc)) |-> AllRes(desc)[j].Dev[d]], idx - 1)

ShaderTableOffset(desc, d) == DevDataOffset(desc, d, Len(AllRes(desc)) + 1)
ShaderTableSize(desc, d) == ArchiveRegionSize * Len(desc.Sh[d])
ShaderOffset(desc, d, k) ==
    ShaderTableOffset(desc, d) + ShaderTableSize(desc, d) + PrefixSum(desc.Sh[d], k - 1)

DeviceByte(desc, d, p) == (desc.Seed + 37 * d + p) % 251

AuthoredBlock(desc, d) ==
    LET total == ShaderOffset(desc, d, Len(desc.Sh[d]) + 1)
        table == Flatten([k \in 1..Len(desc.Sh[d]) |->
                           ArchiveRegionBytes(ArchiveRegion(U32(ShaderOffset(desc, d, k)),
                                                            U32(desc.Sh[d][k])))])
    IN  [p \in 1..total |->
           IF p > ShaderTableOffset(desc, d)
              /\ p <= ShaderTableOffset(desc, d) + ShaderTableSize(desc, d)
           THEN table[p - ShaderTableOffset(desc, d)]
           ELSE DeviceByte(desc, d, p - 1)]

AuthoredHeader(desc, tag, idx) ==
    [Type                     |-> U32(tag),
     DeviceSpecificDataSize   |-> AsTuple([d \in 1..DeviceTypeCount |-> U32(AllRes(desc)[idx].Dev[d])]),
     DeviceSpecificDataOffset |-> AsTuple([d \in 1..DeviceTypeCount |->
                                     IF AllRes(desc)[idx].Dev[d] = 0 THEN InvalidOffset
                                     ELSE U32(DevDataOffset(desc, d, idx))])]

AuthoredShadersHeader(desc) ==
    [Type                     |-> U32(Shaders),
     DeviceSpecificDataSize   |-> AsTuple([d \in 1..DeviceTypeCount |-> U32(ShaderTableSize(desc, d))]),
     DeviceSpecificDataOffset |-> AsTuple([d \in 1..DeviceTypeCount |->
                                     IF desc.Sh[d] = <<>> THEN InvalidOffset
                                     ELSE U32(ShaderTableOffset(desc, d))])]

AuthoredChunk(desc, i) ==
    LET c == desc.Chunks[i]
    IN  IF c.Type = Shaders
        THEN [Type |-> Shaders, Header |-> AuthoredShadersHeader(desc)]
        ELSE [Type    |-> c.Type,
              Entries |-> [k \in 1..Len(c.Res) |->
                             [Name |-> c.Res[k].Name,
                              Data |-> (IF c.Type = RenderPass
                                        THEN RPDataHeaderBytes(U32(c.Res[k].Tag))
                                        ELSE DataHeaderBaseBytes(
                                               AuthoredHeader(desc, c.Res[k].Tag, ResIndex(desc, i, k))))
                                       \o c.Res[k].Payload]]]

Author(desc) ==
    Layout([i \in 1..Len(desc.Chunks) |-> AuthoredChunk(desc, i)],
           [d \in 1..BlockOffsetTypeCount |-> AuthoredBlock(desc, d)])

\* Resource names
SigA == <<83, 105, 103, 65>>
SigB == <<83, 105, 103, 66>>
SigC == <<83, 105, 103, 67>>
PsoA == <<80, 115, 111, 65>>
RPass == <<82, 80>>
Nonexistent == <<110, 111, 110, 101>>
Names == {SigA, SigB, SigC, PsoA, RPass, Nonexistent}

NoDev == [d \in 1..DeviceTypeCount |-> 0]
OnDev(f) == [d \in 1..DeviceTypeCount |-> IF (d - 1) \in DOMAIN f THEN f[d - 1] ELSE 0]
Resource(Name, Tag, Payload, Dev) == [Name |-> Name, Tag |-> Tag, Payload |-> Payload, Dev |-> Dev]

\* One resource signature "SigA", present for Vulkan only, at offset 100 with
\* 50 bytes.
ArchiveSigA ==
    [Seed   |-> 1,
     Chunks |-> <<[Type |-> ResourceSignature,
                   Res  |-> <<Resource(SigA, ResourceSignature, <<1, 2, 3, 4>>, OnDev(Vulkan :> 50))>>]>>,
     Sh     |-> [d \in 1..DeviceTypeCount |-> <<>>],
     Pre    |-> [d \in 1..DeviceTypeCount |-> IF d = Vulkan + 1 THEN 100 ELSE 0]]

\* Two signatures, a pipeline state and a render pass, compiled for
\* Direct3D12 and Vulkan, with two Vulkan shaders and one Direct3D12 shader.
ArchiveFull ==
    [Seed   |-> 2,
     Chunks |-> <<[Type |-> ResourceSignature,
                   Res  |-> <<Resource(SigB, ResourceSignature, <<5, 6>>, OnDev(Vulkan :> 6)),
                              Resource(SigA, ResourceSignature, <<7>>,
                                  OnDev(Vulkan :> 5 @@ Direct3D12 :> 3))>>],
                  [Type |-> Shaders, Res |-> <<>>],
                  [Type |-> GraphicsPipelineStates,
                   Res  |-> <<Resource(PsoA, GraphicsPipelineStates, <<8, 9, 10>>,
                                  OnDev(Vulkan :> 8 @@ Direct3D12 :> 4))>>],
                  [Type |-> RenderPass,
                   Res  |-> <<Resource(RPass, RenderPass, <<11, 12>>, NoDev)>>]>>,
     Sh     |-> [d \in 1..DeviceTypeCount |->
                   IF d = Vulkan + 1 THEN <<4, 3>> ELSE IF d = Direct3D12 + 1 THEN <<2>> ELSE <<>>],
     Pre    |-> [d \in 1..DeviceTypeCount |-> 0]]

\* A signature chunk whose resource SigB carries the tag of another chunk
\* type in its data header.
ArchiveBadTag ==
    [Seed   |-> 3,
     Chunks |-> <<[Type |-> ResourceSignature,
                   Res  |-> <<Resource(SigA, ResourceSignature, <<13>>, OnDev(Vulkan :> 4)),
                              Resource(SigB, ComputePipelineStates, <<14>>, OnDev(Vulkan :> 2))>>],
                  [Type |-> ComputePipelineStates,
                   Res  |-> <<Resource(PsoA, ComputePipelineStates, <<15>>, OnDev(Metal_iOS :> 3))>>]>>,
     Sh     |-> [d \in 1..DeviceTypeCount |-> <<>>],
     Pre    |-> [d \in 1..DeviceTypeCount |-> 0]]

\* An archive compiled for Vulkan and Metal_iOS, with a signature the other
\* archives do not have.
ArchiveOther ==
    [Seed   |-> 4,
     Chunks |-> <<[Type |-> ResourceSignature,
                   Res  |-> <<Resource(SigA, ResourceSignature, <<7>>,
                                  OnDev(Vulkan :> 7 @@ Metal_iOS :> 2)),
                              Resource(SigC, ResourceSignature, <<16>>, OnDev(Vulkan :> 3))>>],
                  [Type |-> Shaders, Res |-> <<>>]>>,
     Sh     |-> [d \in 1..DeviceTypeCount |-> IF d = Vulkan + 1 THEN <<5>> ELSE <<>>],
     Pre    |-> [d \in 1..DeviceTypeCount |-> 0]]

Descriptions == <<ArchiveSigA, ArchiveFull, ArchiveBadTag, ArchiveOther>>
ValidArchives == [i \in 1..Len(Descriptions) |-> Author(Descriptions[i])]

(***************************************************************************)
(* ArchiveBlock: LoadToMemory, Read, Write                                 *)
(*                                                                         *)
(* A is the DeviceObjectArchive the block belongs to; the block's pArchive *)
(* is A.m_pArchive or null.                                                *)
(***************************************************************************)
\* mem with the bytes data written at position off.
Patch(mem, off, data) ==
    AsTuple([i \in 1..Len(mem) |->
               IF i > off /\ i <= off + Len(data) THEN data[i - off] ELSE mem[i]])

BlockRead(A, b, off, size) ==
    IF b.Memory # <<>>
    THEN IF off + size <= Len(b.Memory)
         THEN [ok |-> TRUE, data |-> Slice(b.Memory, off, size)]
         ELSE [ok |-> FALSE, data |-> <<>>]
    ELSE IF b.pArchive # NullArchive /\ IsSmall(b.Offset)
            /\ ReadFits(A.m_pArchive, Val(b.Offset) + off, size)
         THEN [ok |-> TRUE, data |-> Slice(A.m_pArchive, Val(b.Offset) + off, size)]
         ELSE [ok |-> FALSE, data |-> <<>>]

LoadToMemory(A, b, readOk) ==
    IF b.Memory # <<>> THEN [ok |-> TRUE, block |-> b]
    ELSE IF IsValid(b) /\ readOk /\ BlockRead(A, b, 0, Val(b.Size)).ok
    THEN [ok |-> TRUE, block |-> [b EXCEPT !.Memory = BlockRead(A, b, 0, Val(b.Size)).data]]
    ELSE [ok |-> FALSE, block |-> b]

\* Write reporting success without looking at Memory.
BlockWriteUnchecked(b, off, data) ==
    IF b.Memory # <<>> /\ off + Len(data) <= Len(b.Memory)
    THEN [ok |-> TRUE, block |-> [b EXCEPT !.Memory = Patch(b.Memory, off, data)]]
    ELSE [ok |-> TRUE, block |-> b]

BlockWrite(b, off, data) ==
    IF b.Memory # <<>> /\ off + Len(data) <= Len(b.Memory)
    THEN [ok |-> TRUE, block |-> [b EXCEPT !.Memory = Patch(b.Memory, off, data)]]
    ELSE [ok |-> FALSE, block |-> b]

\* All bytes of a block, <<>> for a block that is not valid.
BlockBytes(A, b) ==
    IF b.Memory # <<>> THEN b.Memory
    ELSE IF IsValid(b) THEN BlockRead(A, b, 0, Val(b.Size)).data
    ELSE <<>>

(***************************************************************************)
(* Accessors                                                               *)
(***************************************************************************)
\* GetBaseOffset returning the base offset of the next block offset type.
GetBaseOffsetOfNextType(A, Type) == A.m_BaseOffsets[((Type + 1) % BlockOffsetTypeCount) + 1]

GetBaseOffset(A, Type) == A.m_BaseOffsets[Type + 1]
GetChunks(A) == A.m_Chunks
GetResourceMap(A) == A.m_ResMap

\* The maps whose resources carry a DataHeaderBase (render passes carry an
\* RPDataHeader, which has no device specific data).
DeviceResMaps == ResMapNames \ {"RenderPass"}

HeaderSizeOfMap(m) == IF m = "RenderPass" THEN RPDataHeaderSize ELSE DataHeaderBaseSize

\* The data header of resource nm of map m as the common data block holds it.
StoredHeader(A, m, nm) ==
    ReadDataHeaderBase(BlockBytes(A, A.m_CommonData), Val(A.m_ResMap[m][nm].Offset))

\* Every (map, name) of the archive that has a DataHeaderBase.
DeviceResources(A) == UNION {{<<m, nm>> : nm \in DOMAIN A.m_ResMap[m]} : m \in DeviceResMaps}

\* Every (map, name) of the archive.
AllResources(A) == UNION {{<<m, nm>> : nm \in DOMAIN A.m_ResMap[m]} : m \in ResMapNames}

(***************************************************************************)
(* GetDeviceSpecificData                                                   *)
(***************************************************************************)
NoData(err, Reads) == [Data |-> <<>>, Error |-> err, Reads |-> Reads]

GetDeviceSpecificData(A, DevType, Header, readOk) ==
    LET Block  == A.m_DeviceSpecific[GetBlockOffsetType(DevType) + 1]
        Offset == GetOffset(Header, DevType)
        Size   == GetSize(Header, DevType)
    IN  IF Offset = InvalidOffset THEN NoData("", 0)
        ELSE IF ~(IsValid(Block) /\ IsSmall(Offset) /\ IsSmall(Size)
                  /\ Val(Offset) + Val(Size) <= Val(Block.Size))
        THEN NoData("Invalid offset in the archive", 0)
        ELSE IF Block.Memory # <<>>
        THEN [Data |-> BlockRead(A, Block, Val(Offset), Val(Size)).data, Error |-> "", Reads |-> 0]
        ELSE
        LET Base == GetBaseOffset(A, GetBlockOffsetType(DevType))
        IN  IF readOk /\ IsSmall(Base)
               /\ ReadFits(A.m_pArchive, Val(Base) + Val(Offset), Val(Size))
            THEN [Data  |-> Slice(A.m_pArchive, Val(Base) + Val(Offset), Val(Size)),
                  Error |-> "", Reads |-> 1]
            ELSE NoData("Failed to read resource-specific data", 1)

(***************************************************************************)
(* The structural editor: RemoveDeviceData, AppendDeviceData, Serialize    *)
(***************************************************************************)
\* mem with every patch [off, data] of the set patches written (the patches
\* do not overlap).
PatchAll(mem, patches) ==
    AsTuple([i \in 1..Len(mem) |->
       IF \E p \in patches : i > p.off /\ i <= p.off + Len(p.data)
       THEN LET p == CHOOSE q \in patches : i > q.off /\ i <= q.off + Len(q.data)
            IN  p.data[i - p.off]
       ELSE mem[i]])

\* The elements of the set S in increasing order of key[x].
RECURSIVE SeqOfSet(_, _)
SeqOfSet(S, key) ==
    IF S = {} THEN <<>>
    ELSE LET x == CHOOSE y \in S : \A z \in S : key[y] <= key[z]
         IN  <<x>> \o SeqOfSet(S \ {x}, key)

\* The header h with no data for device type Dev.
ClearDevice(h, Dev) == SetOffset(SetSize(h, Dev, U32(0)), Dev, InvalidOffset)

RemoveDeviceData(A, Dev, readOk) ==
    LET L == LoadToMemory(A, A.m_CommonData, readOk)
    IN  IF ~L.ok THEN [ok |-> FALSE, archive |-> A]
        ELSE
        LET B == [A EXCEPT !.m_CommonData = L.block]
            patches == {[off  |-> Val(B.m_ResMap[r[1]][r[2]].Offset),
                         data |-> DataHeaderBaseBytes(
                                    ClearDevice(StoredHeader(B, r[1], r[2]), Dev))]
                        : r \in DeviceResources(B)}
        IN  [ok |-> TRUE,
             archive |->
               [B EXCEPT !.m_CommonData.Memory = PatchAll(L.block.Memory, patches),
                         !.m_ShadersHeader = ClearDevice(@, Dev),
                         !.m_DeviceSpecific[GetBlockOffsetType(Dev) + 1] = EmptyArchiveBlock,
                         !.m_BaseOffsets[GetBlockOffsetType(Dev) + 1] = InvalidOffset]]

\* The size and offset device type Dev has in the header h of the source,
\* the offset moved by Rebase bytes.
RebasedSize(h, Dev) == IF GetOffset(h, Dev) = InvalidOffset THEN U32(0) ELSE GetSize(h, Dev)
RebasedOffset(h, Dev, Rebase) ==
    IF GetOffset(h, Dev) = InvalidOffset THEN InvalidOffset
    ELSE AddU32(GetOffset(h, Dev), U32(Rebase))

\* The whole header of the source taken over, its offsets moved.
WithAllDevicesOf(dst, src, Dev, Rebase) ==
    [src EXCEPT !.DeviceSpecificDataOffset[Dev + 1] = RebasedOffset(src, Dev, Rebase)]

\* dst with the data of device type Dev taken from the header src.
WithDeviceOf(dst, src, Dev, Rebase) ==
    SetOffset(SetSize(dst, Dev, RebasedSize(src, Dev)), Dev, RebasedOffset(src, Dev, Rebase))

\* The bytes of the block of Dev of the source S with the shader regions its
\* shaders header refers to moved by Rebase bytes.
RebasedBlockBytes(S, Dev, Rebase) ==
    LET bytes == BlockBytes(S, S.m_DeviceSpecific[GetBlockOffsetType(Dev) + 1])
        off   == GetOffset(S.m_ShadersHeader, Dev)
        size  == GetSize(S.m_ShadersHeader, Dev)
    IN  IF off = InvalidOffset \/ ~(IsSmall(off) /\ IsSmall(size))
           \/ Val(off) + Val(size) > Len(bytes)
        THEN bytes
        ELSE Patch(bytes, Val(off),
                   Flatten([k \in 1..(Val(size) \div ArchiveRegionSize) |->
                      LET at == Val(off) + ArchiveRegionSize * (k - 1)
                      IN  ArchiveRegionBytes(
                            ArchiveRegion(AddU32(U32At(bytes, at), U32(Rebase)),
                                          U32At(bytes, at + 4)))]))

\* The chunks of the source S of a type the archive A has no chunk of.
\* AllChunksOf takes every chunk of the source.
AllChunksOf(A, S) == S.m_Chunks

ChunksOnlyIn(A, S) ==
    SelectSeq(S.m_Chunks, LAMBDA c : \A i \in 1..Len(A.m_Chunks) : A.m_Chunks[i].Type # c.Type)

AppendDeviceData(A, S, Dev, readOk) ==
    LET L == LoadToMemory(A, A.m_CommonData, readOk)
    IN  IF ~L.ok THEN [ok |-> FALSE, archive |-> A]
        ELSE
        LET B        == [A EXCEPT !.m_CommonData = L.block]
            bi       == GetBlockOffsetType(Dev) + 1
            OldBlock == A.m_DeviceSpecific[bi]
            OldBytes == BlockBytes(A, OldBlock)
            Rebase   == Len(OldBytes)
            NewBytes == OldBytes \o RebasedBlockBytes(S, Dev, Rebase)
            NewBlock == IF NewBytes = <<>> THEN EmptyArchiveBlock
                        ELSE [pArchive |-> ThisArchive,
                              Offset   |-> IF IsValid(OldBlock) THEN OldBlock.Offset ELSE U32(0),
                              Size     |-> U32(Len(NewBytes)),
                              Memory   |-> NewBytes]
            \* the resources of the source: in both archives, or new
            Both     == AllResources(S) \cap AllResources(B)
            New      == SeqOfSet(AllResources(S) \ AllResources(B),
                                 [r \in AllResources(S) |-> Val(S.m_ResMap[r[1]][r[2]].Offset)])
            patches  == {[off  |-> Val(B.m_ResMap[r[1]][r[2]].Offset),
                          data |-> DataHeaderBaseBytes(
                                     WithDeviceOf(StoredHeader(B, r[1], r[2]),
                                                  StoredHeader(S, r[1], r[2]), Dev, Rebase))]
                         : r \in Both \cap DeviceResources(S)}
            SrcData(r) == BlockRead(S, S.m_CommonData, Val(S.m_ResMap[r[1]][r[2]].Offset),
                                    Val(S.m_ResMap[r[1]][r[2]].Size)).data
            NewData(r) ==
                IF r[1] = "RenderPass" THEN SrcData(r)
                ELSE DataHeaderBaseBytes(
                       WithDeviceOf(DataHeaderBase(StoredHeader(S, r[1], r[2]).Type),
                                    StoredHeader(S, r[1], r[2]), Dev, Rebase))
                     \o Slice(SrcData(r), DataHeaderBaseSize, Len(SrcData(r)) - DataHeaderBaseSize)
            NewSize  == [k \in 1..Len(New) |-> AlignUp(Len(NewData(New[k])), DataPtrAlign)]
            OldEnd   == AlignUp(Len(L.block.Memory), DataPtrAlign)
            NewOff(k) == OldEnd + PrefixSum(NewSize, k - 1)
            NewMem   == PadTo(PatchAll(L.block.Memory, patches), OldEnd)
                          \o Flatten([k \in 1..Len(New) |-> PadTo(NewData(New[k]), NewSize[k])])
            IndexOfNew(r) == CHOOSE k \in 1..Len(New) : New[k] = r
            NewChunks == ChunksOnlyIn(A, S)
        IN  [ok |-> TRUE,
             archive |->
               [B EXCEPT
                  !.m_CommonData.Memory = NewMem,
                  !.m_CommonData.Size = U32(Len(NewMem)),
                  !.m_ResMap = [m \in ResMapNames |->
                                  [nm \in DOMAIN B.m_ResMap[m] \cup DOMAIN S.m_ResMap[m] |->
                                     IF nm \in DOMAIN B.m_ResMap[m] THEN B.m_ResMap[m][nm]
                                     ELSE ArchiveRegion(U32(NewOff(IndexOfNew(<<m, nm>>))),
                                                        S.m_ResMap[m][nm].Size)]],
                  !.m_Chunks = @ \o [i \in 1..Len(NewChunks) |->
                                       ChunkHeader(NewChunks[i].Type, U32(0), U32(0))],
                  !.m_ShadersHeader = WithDeviceOf(@, S.m_ShadersHeader, Dev, Rebase),
                  !.m_DeviceSpecific[bi] = NewBlock,
                  !.m_BaseOffsets[bi] = NewBlock.Offset]]

\* Serialize: the archive written as one linear byte stream.  The chunks
\* keep their order, the resources of a chunk the order of their regions.
SerializedChunk(A, c) ==
    IF c.Type = U32(Shaders) THEN [Type |-> Shaders, Header |-> A.m_ShadersHeader]
    ELSE IF c.Type = U32(ArchiveDebugInfo) THEN [Type |-> ArchiveDebugInfo, Info |-> A.m_DebugInfo]
    ELSE
    LET m  == CHOOSE x \in ResMapNames : U32(ChunkTypeOfMap(x)) = c.Type
        nm == SeqOfSet(DOMAIN A.m_ResMap[m],
                       [x \in DOMAIN A.m_ResMap[m] |-> Val(A.m_ResMap[m][x].Offset)])
    IN  [Type    |-> ChunkTypeOfMap(m),
         Entries |-> [k \in 1..Len(nm) |->
                        [Name |-> nm[k],
                         Data |-> BlockRead(A, A.m_CommonData, Val(A.m_ResMap[m][nm[k]].Offset),
                                            Val(A.m_ResMap[m][nm[k]].Size)).data]]]

Serialize(A) ==
    Layout([i \in 1..Len(A.m_Chunks) |-> SerializedChunk(A, A.m_Chunks[i])],
           [d \in 1..BlockOffsetTypeCount |-> BlockBytes(A, A.m_DeviceSpecific[d])])

(***************************************************************************)
(* LoadResourceData                                                        *)
(*                                                                         *)
(* NameToRegion is one map of m_ResMap, ExpectedChunkType the chunk type   *)
(* of the caller's ResData.  readOk says whether IArchive::Read can        *)
(* succeed, Deserialized what ResData.Deserialize does when it is reached: *)
(* the value it returns (Res) and whether it consumed every byte (Ended).  *)
(* The result records what the call returned and logged, how many reads    *)
(* of the archive and calls of the deserializer it made, the Type of the   *)
(* header ResData.pHeader points to, and whether VERIFY_EXPR(Ser.IsEnded())*)
(* failed.                                                                 *)
(***************************************************************************)
NoHeader == <<>>

LoadResult(Res, Log, Reads, Calls, Type, VerifyFailed) ==
    [Res |-> Res, Log |-> Log, Reads |-> Reads, Deserialize |-> Calls,
     Type |-> Type, VerifyFailed |-> VerifyFailed]

\* IArchive::Read(Offset, Size, pData)
ArchiveRead(a, Offset, Size, readOk) ==
    IF readOk /\ IsSmall(Offset) /\ IsSmall(Size) /\ ReadFits(a, Val(Offset), Val(Size))
    THEN [ok |-> TRUE, pData |-> Slice(a, Val(Offset), Val(Size))]
    ELSE [ok |-> FALSE, pData |-> <<>>]

\* LoadResourceData returning true whatever Deserialize returned.
LoadResourceDataReturnsTrue(A, NameToRegion, ResourceName, ExpectedChunkType, readOk, Deserialized) ==
    IF ResourceName \notin DOMAIN NameToRegion
    THEN LoadResult(FALSE, "is not present in the archive", 0, 0, NoHeader, FALSE)
    ELSE
    LET Region == NameToRegion[ResourceName]
        Read   == ArchiveRead(A.m_pArchive, Region.Offset, Region.Size, readOk)
    IN  IF ~Read.ok
        THEN LoadResult(FALSE, "Failed to read resource data from the archive", 1, 0,
                        NoHeader, FALSE)
        ELSE
        LET Type == U32At(Read.pData, 0)
        IN  IF Type # U32(ExpectedChunkType)
            THEN LoadResult(FALSE, "Invalid chunk header", 1, 0, Type, FALSE)
            ELSE LoadResult(TRUE, "", 1, 1, Type, ~Deserialized.Ended)

\* LoadResourceData looking the name up with operator[]: a name that is
\* not in the map gets an empty region, which is then read.
LoadResourceDataReadsOnMiss(A, NameToRegion, ResourceName, ExpectedChunkType, readOk, Deserialized) ==
    LET Region == IF ResourceName \in DOMAIN NameToRegion THEN NameToRegion[ResourceName]
                  ELSE [Offset |-> U32(0), Size |-> U32(0)]
        Read   == ArchiveRead(A.m_pArchive, Region.Offset, Region.Size, readOk)
    IN  IF ~Read.ok \/ Len(Read.pData) < 4
        THEN LoadResult(FALSE, "Failed to read resource data from the archive", 1, 0,
                        NoHeader, FALSE)
        ELSE
        LET Type == U32At(Read.pData, 0)
        IN  IF Type # U32(ExpectedChunkType)
            THEN LoadResult(FALSE, "Invalid chunk header", 1, 0, Type, FALSE)
            ELSE LoadResult(Deserialized.Res, "", 1, 1, Type, ~Deserialized.Ended)

\* LoadResourceData without the comparison of the header's Type.
LoadResourceDataNoTagCheck(A, NameToRegion, ResourceName, ExpectedChunkType, readOk, Deserialized) ==
    IF ResourceName \notin DOMAIN NameToRegion
    THEN LoadResult(FALSE, "is not present in the archive", 0, 0, NoHeader, FALSE)
    ELSE
    LET Region == NameToRegion[ResourceName]
        Read   == ArchiveRead(A.m_pArchive, Region.Offset, Region.Size, readOk)
    IN  IF ~Read.ok
        THEN LoadResult(FALSE, "Failed to read resource data from the archive", 1, 0,
                        NoHeader, FALSE)
        ELSE LoadResult(Deserialized.Res, "", 1, 1, U32At(Read.pData, 0), ~Deserialized.Ended)

\* LoadResourceData calling Deserialize before it compares the header's Type.
LoadResourceDataDeserializesFirst(A, NameToRegion, ResourceName, ExpectedChunkType, readOk, Deserialized) ==
    IF ResourceName \notin DOMAIN NameToRegion
    THEN LoadResult(FALSE, "is not present in the archive", 0, 0, NoHeader, FALSE)
    ELSE
    LET Region == NameToRegion[ResourceName]
        Read   == ArchiveRead(A.m_pArchive, Region.Offset, Region.Size, readOk)
    IN  IF ~Read.ok
        THEN LoadResult(FALSE, "Failed to read resource data from the archive", 1, 0,
                        NoHeader, FALSE)
        ELSE
        LET Type == U32At(Read.pData, 0)
        IN  IF Type # U32(ExpectedChunkType)
            THEN LoadResult(FALSE, "Invalid chunk header", 1, 1, Type, ~Deserialized.Ended)
            ELSE LoadResult(Deserialized.Res, "", 1, 1, Type, ~Deserialized.Ended)

\* LoadResourceData reading the region a second time when the first
\* IArchive::Read failed.
LoadResourceDataRetries(A, NameToRegion, ResourceName, ExpectedChunkType, readOk, Deserialized) ==
    IF ResourceName \notin DOMAIN NameToRegion
    THEN LoadResult(FALSE, "is not present in the archive", 0, 0, NoHeader, FALSE)
    ELSE
    LET Region == NameToRegion[ResourceName]
        Read   == ArchiveRead(A.m_pArchive, Region.Offset, Region.Size, readOk)
    IN  IF ~Read.ok
        THEN LoadResult(FALSE, "Failed to read resource data from the archive", 2, 0,
                        NoHeader, FALSE)
        ELSE
        LET Type == U32At(Read.pData, 0)
        IN  IF Type # U32(ExpectedChunkType)
            THEN LoadResult(FALSE, "Invalid chunk header", 1, 0, Type, FALSE)
            ELSE LoadResult(Deserialized.Res, "", 1, 1, Type, ~Deserialized.Ended)

LoadResourceData(A, NameToRegion, ResourceName, ExpectedChunkType, readOk, Deserialized) ==
    IF ResourceName \notin DOMAIN NameToRegion
    THEN LoadResult(FALSE, "is not present in the archive", 0, 0, NoHeader, FALSE)
    ELSE
    LET Region == NameToRegion[ResourceName]
        Read   == ArchiveRead(A.m_pArchive, Region.Offset, Region.Size, readOk)
    IN  IF ~Read.ok
        THEN LoadResult(FALSE, "Failed to read resource data from the archive", 1, 0,
                        NoHeader, FALSE)
        ELSE
        LET Type == U32At(Read.pData, 0)
        IN  IF Type # U32(ExpectedChunkType)
            THEN LoadResult(FALSE, "Invalid chunk header", 1, 0, Type, FALSE)
            ELSE LoadResult(Deserialized.Res, "", 1, 1, Type, ~Deserialized.Ended)

\* The error kind a failed call is reported with.
ErrorKind(Log) ==
    CASE Log = "" -> "None"
      [] Log = "is not present in the archive" -> "NotFound"
      [] Log = "Failed to read resource data from the archive" -> "IOFailure"
      [] Log = "Failed to read resource-specific data" -> "IOFailure"
      [] Log = "Invalid chunk header" -> "CorruptData"
      [] Log = "Invalid offset in the archive" -> "CorruptData"
      [] Log = "Archive header magic number is incorrect" -> "FormatError"
      [] Log = "Archive version is not supported" -> "FormatError"
      [] OTHER -> "FormatError"

(***************************************************************************)
(* The byte sources an archive is constructed from: the authored archives, *)
(* and each of them with one bit of the magic number flipped, with another *)
(* version number, or with its first chunk header repeated in place of the *)
(* second.                                                                 *)
(***************************************************************************)
RECURSIVE Pow2(_)
Pow2(k) == IF k = 0 THEN 1 ELSE 2 * Pow2(k - 1)

\* The byte b with bit k flipped.
FlipBit(b, k) == IF (b \div Pow2(k)) % 2 = 1 THEN b - Pow2(k) ELSE b + Pow2(k)

MagicBits == 0..31
OtherVersions == {1, 3}

\* The archives that have a second chunk header
SeveralChunks == {i \in DOMAIN ValidArchives : Len(Descriptions[i].Chunks) >= 2}

ArchiveInputs ==
    [kind : {"authored"}, src : DOMAIN ValidArchives]
      \cup [kind : {"chunk"}, src : SeveralChunks]
      \cup [kind : {"magic"}, src : DOMAIN ValidArchives, bit : MagicBits]
      \cup [kind : {"version"}, src : DOMAIN ValidArchives, version : OtherVersions]

InputBytes(in) ==
    LET a == ValidArchives[in.src]
    IN  CASE in.kind = "authored" -> a
          [] in.kind = "magic" ->
               Patch(a, in.bit \div 8, <<FlipBit(a[in.bit \div 8 + 1], in.bit % 8)>>)
          [] in.kind = "version" -> Patch(a, 4, U32(in.version))
          [] in.kind = "chunk" ->
               Patch(a, ArchiveHeaderSize + ChunkHeaderSize,
                     Slice(a, ArchiveHeaderSize, ChunkHeaderSize))

(***************************************************************************)
(* The state                                                               *)
(***************************************************************************)
VARIABLES
    archive,         \* the DeviceObjectArchive, NoObject before construction
    stream,          \* the bytes Serialize wrote, <<>> if none
    last,            \* the call in progress: its arguments and its result
    edits,           \* the number of RemoveDeviceData and AppendDeviceData calls
    dirty,           \* archive was edited after it was constructed
    removed,         \* device types removed and not appended since
    m_ShaderRegions, \* per device type: Mtx (its holder) and Regions
    pc,              \* per thread: where it is in GetShaderRegions
    dev,             \* per thread: the DevType of its call
    ret,             \* per thread: the list its last call returned
    calls,           \* per thread: the number of calls it has made
    computed,        \* per device type: how often its regions were computed
    req              \* per thread: the read call it is in, with its locals

shaderVars == <<m_ShaderRegions, pc, dev, ret, calls, computed, req>>
vars == <<archive, stream, last, edits, dirty, removed,
          m_ShaderRegions, pc, dev, ret, calls, computed, req>>

NoObject == [ok |-> FALSE]
Idle == [op |-> "none"]
NoRequest == [op |-> "none"]

\* Bounds of the model
MaxEdits == 2
NumThreads == 2
MaxCalls == 2

Threads == 1..NumThreads

\* The device types the structural editor is called with, and the archives
\* AppendDeviceData takes device data from.
EditDevices == {Direct3D12, Vulkan}
Sources == [i \in {2, 4} |-> Construct(ValidArchives[i])]

NoLock == {}
InitShaderRegions == [d \in DeviceTypes |-> [Mtx |-> NoLock, Regions |-> <<>>]]

InitShaderVars ==
    /\ m_ShaderRegions = InitShaderRegions
    /\ pc = [t \in Threads |-> "idle"]
    /\ dev = [t \in Threads |-> OpenGL]
    /\ ret = [t \in Threads |-> <<>>]
    /\ calls = [t \in Threads |-> 0]
    /\ computed = [d \in DeviceTypes |-> 0]
    /\ req = [t \in Threads |-> NoRequest]

Init ==
    /\ archive = NoObject
    /\ stream = <<>>
    /\ last = Idle
    /\ edits = 0
    /\ dirty = FALSE
    /\ removed = {}
    /\ InitShaderVars

(***************************************************************************)
(* The operations of a DeviceObjectArchive, one call at a time             *)
(***************************************************************************)
\* DeviceObjectArchive(IArchive*): the object exists only if the
\* constructor returns.
ConstructArchive(in) ==
    /\ ~archive.ok /\ last = Idle
    /\ LET C == Construct(InputBytes(in))
       IN  /\ archive' = IF C.ok THEN C ELSE NoObject
           /\ last' = [op |-> "Construct", in |-> in, ok |-> C.ok,
                       Error |-> IF C.ok THEN "" ELSE C.Error]
    /\ dirty' = FALSE
    /\ removed' = {}
    /\ UNCHANGED <<stream, edits, shaderVars>>

\* The caller takes the result of its call.
Return ==
    /\ last # Idle
    /\ last' = Idle
    /\ UNCHANGED <<archive, stream, edits, dirty, removed, shaderVars>>

DeserializeOutcomes == [Res : BOOLEAN, Ended : BOOLEAN]
NoOutcome == [Res |-> FALSE, Ended |-> FALSE]

\* What a call saw of IArchive::Read
ReadSeen(Reads, Log) ==
    IF Reads = 0 THEN "none" ELSE IF ErrorKind(Log) = "IOFailure" THEN "failed" ELSE "ok"

\* last records the outcome of IArchive::Read and of Deserialize only if the
\* call made them.
LoadResourceDataCall(m, nm, readOk, d) ==
    /\ archive.ok /\ last = Idle
    /\ LET R == LoadResourceData(archive, archive.m_ResMap[m], nm, ChunkTypeOfMap(m), readOk, d)
       IN  last' = [op |-> "LoadResourceData", map |-> m, name |-> nm,
                    read |-> ReadSeen(R.Reads, R.Log),
                    deserialized |-> IF R.Deserialize = 0 THEN NoOutcome ELSE d,
                    result |-> R]
    /\ UNCHANGED <<archive, stream, edits, dirty, removed, shaderVars>>

\* The header LoadResourceData hands out for resource nm of map m.
LoadedHeader(A, m, nm) == ReadDataHeaderBase(A.m_pArchive, Val(A.m_ResMap[m][nm].Offset))

\* A header that refers to bytes beyond every block.
BeyondHeader(d) ==
    SetOffset(SetSize(DataHeaderBase(U32(ResourceSignature)), d, U32(8)), d, U32(4000))

\* The headers GetDeviceSpecificData is called with.
HeadersOf(A) ==
    IF ~A.ok THEN {} ELSE
    {StoredHeader(A, r[1], r[2]) : r \in DeviceResources(A)}
      \cup {LoadedHeader(A, r[1], r[2]) :
              r \in {x \in DeviceResources(A) :
                       ReadFits(A.m_pArchive, Val(A.m_ResMap[x[1]][x[2]].Offset),
                                DataHeaderBaseSize)}}
      \cup {A.m_ShadersHeader}
      \cup {BeyondHeader(d) : d \in EditDevices}

GetDeviceSpecificDataCall(Header, DevType, readOk) ==
    /\ archive.ok /\ last = Idle
    /\ LET R == GetDeviceSpecificData(archive, DevType, Header, readOk)
       IN  last' = [op |-> "GetDeviceSpecificData", Header |-> Header, DevType |-> DevType,
                    read |-> ReadSeen(R.Reads, R.Error),
                    result |-> R]
    /\ UNCHANGED <<archive, stream, edits, dirty, removed, shaderVars>>

\* The structural editor works on an archive that is not being written out.
RemoveDeviceDataCall(Dev, readOk) ==
    /\ archive.ok /\ last = Idle /\ edits < MaxEdits /\ stream = <<>>
    /\ LET R == RemoveDeviceData(archive, Dev, readOk)
       IN  /\ archive' = R.archive
           /\ last' = [op |-> "RemoveDeviceData", Dev |-> Dev, ok |-> R.ok]
           /\ removed' = IF R.ok THEN removed \cup {Dev} ELSE removed
           /\ dirty' = (dirty \/ R.ok)
           /\ edits' = IF R.ok THEN edits + 1 ELSE edits
    /\ UNCHANGED <<stream, shaderVars>>

AppendDeviceDataCall(src, Dev, readOk) ==
    /\ archive.ok /\ last = Idle /\ edits < MaxEdits /\ stream = <<>>
    /\ LET R == AppendDeviceData(archive, Sources[src], Dev, readOk)
       IN  /\ archive' = R.archive
           /\ last' = [op |-> "AppendDeviceData", src |-> src, Dev |-> Dev, ok |-> R.ok,
                       before |-> archive.m_DeviceSpecific[GetBlockOffsetType(Dev) + 1]]
           /\ removed' = IF R.ok THEN removed \ {Dev} ELSE removed
           /\ dirty' = (dirty \/ R.ok)
           /\ edits' = IF R.ok THEN edits + 1 ELSE edits
    /\ UNCHANGED <<stream, shaderVars>>

SerializeCall ==
    /\ archive.ok /\ last = Idle /\ stream = <<>>
    /\ stream' = Serialize(archive)
    /\ last' = [op |-> "Serialize"]
    /\ UNCHANGED <<archive, edits, dirty, removed, shaderVars>>

\* The object is released and a DeviceObjectArchive is constructed from the
\* serialized bytes.
Reopen ==
    /\ archive.ok /\ stream # <<>> /\ last = Idle
    /\ LET C == Construct(stream)
       IN  /\ archive' = IF C.ok THEN C ELSE NoObject
           /\ last' = [op |-> "Reopen", ok |-> C.ok, fresh |-> ~dirty,
                       Error |-> IF C.ok THEN "" ELSE C.Error]
    /\ stream' = <<>>
    /\ dirty' = FALSE
    /\ removed' = {}
    /\ UNCHANGED <<edits, shaderVars>>

Next ==
    \/ \E in \in ArchiveInputs : ConstructArchive(in)
    \/ Return
    \/ \E m \in ResMapNames, nm \in Names, readOk \in BOOLEAN, d \in DeserializeOutcomes :
         LoadResourceDataCall(m, nm, readOk, d)
    \/ \E DevType \in DeviceTypes, readOk \in BOOLEAN :
         \E Header \in HeadersOf(archive) : GetDeviceSpecificDataCall(Header, DevType, readOk)
    \/ \E Dev \in EditDevices, readOk \in BOOLEAN : RemoveDeviceDataCall(Dev, readOk)
    \/ \E src \in DOMAIN Sources, Dev \in EditDevices, readOk \in BOOLEAN :
         AppendDeviceDataCall(src, Dev, readOk)
    \/ SerializeCall
    \/ Reopen

Spec == Init /\ [][Next]_vars

(***************************************************************************)
(* GetShaderRegions called from several threads                            *)
(*                                                                         *)
(* ShaderRegionsInfo holds a mutex and the vector of regions and nothing   *)
(* else, so the cache of a device type counts as filled when its vector is *)
(* not empty.  A call locks Mtx, returns the vector if it is filled, and   *)
(* otherwise reads the regions the shaders header refers to, stores them   *)
(* and returns them.  The reads of the archive succeed.                    *)
(***************************************************************************)
mainVars == <<archive, stream, last, edits, dirty, removed>>

\* The device types GetShaderRegions is called with
ShaderDevices == {OpenGL, Direct3D12, Vulkan}

\* The regions the shaders header of A lists for device type d.
ShaderRegionsOf(A, d) ==
    LET D == GetDeviceSpecificData(A, d, A.m_ShadersHeader, TRUE).Data
    IN  AsTuple([k \in 1..(Len(D) \div ArchiveRegionSize) |->
                   ArchiveRegion(U32At(D, ArchiveRegionSize * (k - 1)),
                                 U32At(D, ArchiveRegionSize * (k - 1) + 4))])

InitShaders ==
    /\ archive \in {Sources[i] : i \in DOMAIN Sources}
    /\ stream = <<>>
    /\ last = Idle
    /\ edits = 0
    /\ dirty = FALSE
    /\ removed = {}
    /\ InitShaderVars

CallGetShaderRegions(t, d) ==
    /\ pc[t] = "idle" /\ calls[t] < MaxCalls
    /\ pc' = [pc EXCEPT ![t] = "lock"]
    /\ dev' = [dev EXCEPT ![t] = d]
    /\ calls' = [calls EXCEPT ![t] = @ + 1]
    /\ UNCHANGED <<mainVars, m_ShaderRegions, ret, computed, req>>

\* GetShaderRegions taking one lock for all device types: a thread waits
\* while any Mtx is held.
LockGlobalMtx(t) ==
    /\ pc[t] = "lock" /\ \A d \in DeviceTypes : m_ShaderRegions[d].Mtx = NoLock
    /\ m_ShaderRegions' = [m_ShaderRegions EXCEPT ![dev[t]].Mtx = {t}]
    /\ pc' = [pc EXCEPT ![t] = "check"]
    /\ UNCHANGED <<mainVars, dev, ret, calls, computed, req>>

LockMtx(t) ==
    /\ pc[t] = "lock" /\ m_ShaderRegions[dev[t]].Mtx = NoLock
    /\ m_ShaderRegions' = [m_ShaderRegions EXCEPT ![dev[t]].Mtx = {t}]
    /\ pc' = [pc EXCEPT ![t] = "check"]
    /\ UNCHANGED <<mainVars, dev, ret, calls, computed, req>>

CheckRegions(t) ==
    /\ pc[t] = "check"
    /\ pc' = [pc EXCEPT ![t] = IF m_ShaderRegions[dev[t]].Regions # <<>>
                                THEN "unlock" ELSE "compute"]
    /\ UNCHANGED <<mainVars, m_ShaderRegions, dev, ret, calls, computed, req>>

ComputeRegions(t) ==
    /\ pc[t] = "compute"
    /\ m_ShaderRegions' = [m_ShaderRegions EXCEPT
                             ![dev[t]].Regions = ShaderRegionsOf(archive, dev[t])]
    /\ computed' = [computed EXCEPT ![dev[t]] = @ + 1]
    /\ pc' = [pc EXCEPT ![t] = "unlock"]
    /\ UNCHANGED <<mainVars, dev, ret, calls, req>>

UnlockMtx(t) ==
    /\ pc[t] = "unlock"
    /\ m_ShaderRegions' = [m_ShaderRegions EXCEPT ![dev[t]].Mtx = NoLock]
    /\ ret' = [ret EXCEPT ![t] = m_ShaderRegions[dev[t]].Regions]
    /\ pc' = [pc EXCEPT ![t] = "idle"]
    /\ UNCHANGED <<mainVars, dev, calls, computed, req>>

NextShaders ==
    \/ \E t \in Threads, d \in ShaderDevices : CallGetShaderRegions(t, d)
    \/ \E t \in Threads : LockMtx(t)
    \/ \E t \in Threads : CheckRegions(t)
    \/ \E t \in Threads : ComputeRegions(t)
    \/ \E t \in Threads : UnlockMtx(t)

SpecShaders == InitShaders /\ [][NextShaders]_vars

\* Every thread that is inside GetShaderRegions is scheduled again: a step
\* of its call that stays possible is taken.  Nothing makes a thread call.
StepInCall(t) == LockMtx(t) \/ CheckRegions(t) \/ ComputeRegions(t) \/ UnlockMtx(t)

SpecShadersFair == SpecShaders /\ \A t \in Threads : WF_vars(StepInCall(t))

(***************************************************************************)
(* Validate                                                                *)
(*                                                                         *)
(* The consistency check of the archive: every region and every device     *)
(* specific range lies within its block, every data header carries the     *)
(* chunk type of its map, and the blocks backed by the archive do not      *)
(* overlap.                                                                *)
(***************************************************************************)
\* The range [Offset, Offset + Size) lies within the first Limit bytes.
InBounds(Offset, Size, Limit) ==
    IsSmall(Offset) /\ IsSmall(Size) /\ Val(Offset) + Val(Size) <= Limit

\* The device specific ranges of header h lie within the blocks of A.
DeviceRangesValid(A, h) ==
    \A d \in DeviceTypes :
        GetOffset(h, d) # InvalidOffset =>
            LET Block == A.m_DeviceSpecific[GetBlockOffsetType(d) + 1]
            IN  IsValid(Block) /\ InBounds(GetOffset(h, d), GetSize(h, d), Val(Block.Size))

Validate(A) ==
    LET Common == BlockBytes(A, A.m_CommonData)
        Backed == {e \in 1..BlockOffsetTypeCount :
                     IsValid(A.m_DeviceSpecific[e]) /\ A.m_DeviceSpecific[e].Memory = <<>>}
        First(e) == Val(A.m_DeviceSpecific[e].Offset)
        End(e)   == First(e) + Val(A.m_DeviceSpecific[e].Size)
    IN  /\ \A r \in AllResources(A) :
             LET Region == A.m_ResMap[r[1]][r[2]]
             IN  /\ InBounds(Region.Offset, Region.Size, Len(Common))
                 /\ Val(Region.Size) >= HeaderSizeOfMap(r[1])
                 /\ U32At(Common, Val(Region.Offset)) = U32(ChunkTypeOfMap(r[1]))
        /\ \A r \in DeviceResources(A) :
             InBounds(A.m_ResMap[r[1]][r[2]].Offset, U32(DataHeaderBaseSize), Len(Common))
                => DeviceRangesValid(A, StoredHeader(A, r[1], r[2]))
        /\ DeviceRangesValid(A, A.m_ShadersHeader)
        /\ \A e, f \in Backed : e # f => (End(e) <= First(f) \/ End(f) <= First(e))

(***************************************************************************)
(* The read calls made from several threads                                *)
(*                                                                         *)
(* After construction the threads call LoadResourceData,                   *)
(* GetDeviceSpecificData, Validate and the getters on one archive.  A call *)
(* reads the members of the archive in the order of its code, one step at  *)
(* a time, so that steps of other threads come between its reads: a        *)
(* LoadResourceData call finds the region, then reads the byte source,     *)
(* then checks the header and deserializes; a GetDeviceSpecificData call   *)
(* looks at the block and the base offset and then reads the bytes.        *)
(***************************************************************************)
\* The archives the threads read: as constructed, with a header of another
\* chunk type, after RemoveDeviceData and after AppendDeviceData.
ReaderArchives ==
    {Sources[2], Sources[4], Construct(ValidArchives[3]),
     RemoveDeviceData(Sources[2], Vulkan, TRUE).archive,
     AppendDeviceData(Sources[2], Sources[4], Direct3D12, TRUE).archive}

ReaderMaps == {"Sign", "GraphPSO"}
ReaderNames == {SigA, PsoA, Nonexistent}
Consumed == [Res |-> TRUE, Ended |-> TRUE]

\* The headers GetDeviceSpecificData is called with.
ReaderHeaders(A) ==
    {StoredHeader(A, r[1], r[2]) :
       r \in {x \in DeviceResources(A) : x[1] \in ReaderMaps /\ x[2] \in ReaderNames}}
      \cup {BeyondHeader(Vulkan)}

ReaderRequests(A) ==
    [op : {"LoadResourceData"}, map : ReaderMaps, name : ReaderNames, readOk : BOOLEAN]
      \cup [op : {"GetDeviceSpecificData"}, Header : ReaderHeaders(A),
            DevType : EditDevices, readOk : BOOLEAN]
      \cup [op : {"Validate"}]
      \cup [op : {"GetBaseOffset"}, Type : 0..(BlockOffsetTypeCount - 1)]
      \cup [op : {"GetChunks", "GetResourceMap"}]

\* What the call r returns when it runs alone on archive A.
Alone(A, r) ==
    CASE r.op = "LoadResourceData" ->
           LoadResourceData(A, A.m_ResMap[r.map], r.name, ChunkTypeOfMap(r.map),
                            r.readOk, Consumed)
      [] r.op = "GetDeviceSpecificData" ->
           GetDeviceSpecificData(A, r.DevType, r.Header, r.readOk)
      [] r.op = "Validate" -> Validate(A)
      [] r.op = "GetBaseOffset" -> A.m_BaseOffsets[r.Type + 1]
      [] r.op = "GetChunks" -> A.m_Chunks
      [] r.op = "GetResourceMap" -> A.m_ResMap

InitReaders ==
    /\ archive \in ReaderArchives
    /\ stream = <<>>
    /\ last = Idle
    /\ edits = 0
    /\ dirty = FALSE
    /\ removed = {}
    /\ InitShaderVars

readerFrame == <<archive, stream, last, edits, dirty, removed,
                 m_ShaderRegions, dev, calls, computed>>

\* Thread t starts the call r.
BeginRead(t, r) ==
    /\ pc[t] = "idle"
    /\ req' = [req EXCEPT ![t] = r]
    /\ pc' = [pc EXCEPT ![t] = CASE r.op = "LoadResourceData" -> "find"
                                 [] r.op = "GetDeviceSpecificData" -> "locate"
                                 [] OTHER -> "get"]
    /\ UNCHANGED <<readerFrame, ret>>

\* LoadResourceData: NameToRegion.find(ResourceName)
FindRegion(t) ==
    /\ pc[t] = "find"
    /\ LET NameToRegion == archive.m_ResMap[req[t].map]
       IN  IF req[t].name \notin DOMAIN NameToRegion
           THEN /\ ret' = [ret EXCEPT ![t] =
                             LoadResourceData(archive, NameToRegion, req[t].name,
                                              ChunkTypeOfMap(req[t].map), req[t].readOk, Consumed)]
                /\ pc' = [pc EXCEPT ![t] = "done"]
                /\ req' = req
           ELSE /\ req' = [req EXCEPT ![t] =
                             [op |-> "LoadResourceData", map |-> req[t].map,
                              name |-> req[t].name, readOk |-> req[t].readOk,
                              Region |-> NameToRegion[req[t].name]]]
                /\ pc' = [pc EXCEPT ![t] = "read"]
                /\ ret' = ret
    /\ UNCHANGED readerFrame

\* LoadResourceData: IArchive::Read of the region found, the check of the
\* header's Type and Deserialize.
ReadRegion(t) ==
    /\ pc[t] = "read"
    /\ ret' = [ret EXCEPT ![t] =
                 LoadResourceData(archive, [nm \in {req[t].name} |-> req[t].Region],
                                  req[t].name, ChunkTypeOfMap(req[t].map),
                                  req[t].readOk, Consumed)]
    /\ req' = [req EXCEPT ![t] = [op |-> "LoadResourceData", map |-> req[t].map,
                                  name |-> req[t].name, readOk |-> req[t].readOk]]
    /\ pc' = [pc EXCEPT ![t] = "done"]
    /\ UNCHANGED readerFrame

\* GetDeviceSpecificData: the block of the device type and its base offset
LocateBlock(t) ==
    /\ pc[t] = "locate"
    /\ req' = [req EXCEPT ![t] =
                 [op |-> "GetDeviceSpecificData", Header |-> req[t].Header,
                  DevType |-> req[t].DevType, readOk |-> req[t].readOk,
                  m_DeviceSpecific |-> archive.m_DeviceSpecific,
                  m_BaseOffsets |-> archive.m_BaseOffsets]]
    /\ pc' = [pc EXCEPT ![t] = "readblock"]
    /\ UNCHANGED <<readerFrame, ret>>

\* GetDeviceSpecificData: the read of the bytes of the block located
ReadBlock(t) ==
    /\ pc[t] = "readblock"
    /\ ret' = [ret EXCEPT ![t] =
                 GetDeviceSpecificData(
                    [archive EXCEPT !.m_DeviceSpecific = req[t].m_DeviceSpecific,
                                    !.m_BaseOffsets = req[t].m_BaseOffsets],
                    req[t].DevType, req[t].Header, req[t].readOk)]
    /\ req' = [req EXCEPT ![t] = [op |-> "GetDeviceSpecificData", Header |-> req[t].Header,
                                  DevType |-> req[t].DevType, readOk |-> req[t].readOk]]
    /\ pc' = [pc EXCEPT ![t] = "done"]
    /\ UNCHANGED readerFrame

\* Validate and the getters
Get(t) ==
    /\ pc[t] = "get"
    /\ ret' = [ret EXCEPT ![t] =
                 CASE req[t].op = "Validate" -> Validate(archive)
                   [] req[t].op = "GetBaseOffset" -> GetBaseOffset(archive, req[t].Type)
                   [] req[t].op = "GetChunks" -> GetChunks(archive)
                   [] req[t].op = "GetResourceMap" -> GetResourceMap(archive)]
    /\ pc' = [pc EXCEPT ![t] = "done"]
    /\ UNCHANGED <<readerFrame, req>>

\* The caller takes the result of its call.
EndRead(t) ==
    /\ pc[t] = "done"
    /\ pc' = [pc EXCEPT ![t] = "idle"]
    /\ req' = [req EXCEPT ![t] = NoRequest]
    /\ ret' = [ret EXCEPT ![t] = <<>>]
    /\ UNCHANGED readerFrame

NextReaders ==
    \/ \E t \in Threads : \E r \in ReaderRequests(archive) : BeginRead(t, r)
    \/ \E t \in Threads : FindRegion(t)
    \/ \E t \in Threads : ReadRegion(t)
    \/ \E t \in Threads : LocateBlock(t)
    \/ \E t \in Threads : ReadBlock(t)
    \/ \E t \in Threads : Get(t)
    \/ \E t \in Threads : EndRead(t)

SpecReaders == InitReaders /\ [][NextReaders]_vars

(***************************************************************************)
(* The blocks of an archive: LoadToMemory, Read and Write                  *)
(*                                                                         *)
(* The calls are made on the common data block (block 0) and on the blocks *)
(* of the device types (block d + 1 for block offset type d) of an archive *)
(* as constructed.  edits counts the writes that were carried out.         *)
(***************************************************************************)

BlockOf(A, id) == IF id = 0 THEN A.m_CommonData ELSE A.m_DeviceSpecific[id]

WithBlock(A, id, b) ==
    IF id = 0 THEN [A EXCEPT !.m_CommonData = b] ELSE [A EXCEPT !.m_DeviceSpecific[id] = b]

InitBlocks ==
    /\ archive \in {Sources[i] : i \in DOMAIN Sources}
    /\ stream = <<>>
    /\ last = Idle
    /\ edits = 0
    /\ dirty = FALSE
    /\ removed = {}
    /\ InitShaderVars

LoadToMemoryCall(id, readOk) ==
    /\ last = Idle
    /\ LET R == LoadToMemory(archive, BlockOf(archive, id), readOk)
       IN  /\ archive' = WithBlock(archive, id, R.block)
           /\ last' = [op |-> "LoadToMemory", id |-> id, ok |-> R.ok]
    /\ UNCHANGED <<stream, edits, dirty, removed, shaderVars>>

BlockReadCall(id, off, size) ==
    /\ last = Idle
    /\ LET R == BlockRead(archive, BlockOf(archive, id), off, size)
       IN  last' = [op |-> "Read", id |-> id, off |-> off, size |-> size,
                    ok |-> R.ok, data |-> R.data]
    /\ UNCHANGED <<archive, stream, edits, dirty, removed, shaderVars>>

BlockWriteCall(id, off, data) ==
    /\ last = Idle /\ edits < MaxEdits
    /\ LET R == BlockWrite(BlockOf(archive, id), off, data)
       IN  /\ archive' = WithBlock(archive, id, R.block)
           /\ last' = [op |-> "Write", id |-> id, off |-> off, data |-> data, ok |-> R.ok]
           /\ edits' = IF R.ok THEN edits + 1 ELSE edits
    /\ UNCHANGED <<stream, dirty, removed, shaderVars>>

NextBlocks ==
    \/ \E id \in {0, OpenGL + 1, Direct3D12 + 1, Vulkan + 1}, readOk \in BOOLEAN : LoadToMemoryCall(id, readOk)
    \/ \E id \in {0, OpenGL + 1, Direct3D12 + 1, Vulkan + 1}, off \in {0, 2, 4000}, size \in {2, 4000} :
         BlockReadCall(id, off, size)
    \/ \E id \in {0, OpenGL + 1, Direct3D12 + 1, Vulkan + 1}, off \in {0, 2, 4000}, data \in {<<170, 187>>} :
         BlockWriteCall(id, off, data)
    \/ Return

SpecBlocks == InitBlocks /\ [][NextBlocks]_vars

(***************************************************************************)
(* A data header on its own                                                *)
(*                                                                         *)
(* A DataHeaderBase (a PRSDataHeader, PSODataHeader or ShadersDataHeader,  *)
(* which add no member) is constructed with a Type, and SetSize and        *)
(* SetOffset are called on it.  last holds the header, the call made last  *)
(* and the header before that call; edits counts the calls.                *)
(***************************************************************************)
InitHeaders ==
    /\ archive = NoObject
    /\ stream = <<>>
    /\ \E Type \in ChunkTypes \ {Undefined, ArchiveDebugInfo, RenderPass} :
         last = [op |-> "DataHeaderBase", Header |-> DataHeaderBase(U32(Type))]
    /\ edits = 0
    /\ dirty = FALSE
    /\ removed = {}
    /\ InitShaderVars

SetSizeCall(DevType, Size) ==
    /\ edits < MaxEdits
    /\ last' = [op |-> "SetSize", DevType |-> DevType, Value |-> Size,
                Before |-> last.Header, Header |-> SetSize(last.Header, DevType, Size)]
    /\ edits' = edits + 1
    /\ UNCHANGED <<archive, stream, dirty, removed, shaderVars>>

SetOffsetCall(DevType, Offset) ==
    /\ edits < MaxEdits
    /\ last' = [op |-> "SetOffset", DevType |-> DevType, Value |-> Offset,
                Before |-> last.Header, Header |-> SetOffset(last.Header, DevType, Offset)]
    /\ edits' = edits + 1
    /\ UNCHANGED <<archive, stream, dirty, removed, shaderVars>>

NextHeaders ==
    \/ \E DevType \in DeviceTypes, Size \in {U32(0), U32(8), AllOnes} :
         SetSizeCall(DevType, Size)
    \/ \E DevType \in DeviceTypes, Offset \in {U32(0), U32(100), <<248, 255, 255, 255>>, AllOnes} :
         SetOffsetCall(DevType, Offset)

SpecHeaders == InitHeaders /\ [][NextHeaders]_vars

(***************************************************************************)
(* Properties                                                              *)
(***************************************************************************)
\* A LoadResourceData call for a name of the map it was given, on an
\* archive that has its maps from the constructor.
LoadOfInsertedName ==
    /\ last.op = "LoadResourceData"
    /\ ~dirty
    /\ last.name \in DOMAIN archive.m_ResMap[last.map]

\* C1 as stated: for every resource kind K and every name N inserted into K's
\* map at construction, LoadResourceData(K's map, N) succeeds and the header
\* it returns has Type == K.
C1_AlwaysSucceeds ==
    LoadOfInsertedName =>
        /\ last.result.Res = TRUE
        /\ last.result.Type = U32(ChunkTypeOfMap(last.map))

\* C1: for every resource kind K and every name N inserted into K's map at
\* construction, LoadResourceData(K's map, N) succeeds exactly if the read of
\* N's region succeeds, the header read has Type == K and Deserialize returns
\* true; whenever it succeeds, the header it returns has Type == K.
C1_SucceedsIfReadTagAndDeserializeDo ==
    LoadOfInsertedName =>
        /\ last.result.Res = (/\ last.read = "ok"
                              /\ last.result.Type = U32(ChunkTypeOfMap(last.map))
                              /\ last.result.Deserialize = 1
                              /\ last.deserialized.Res)
        /\ last.result.Res => last.result.Type = U32(ChunkTypeOfMap(last.map))

\* A call for an inserted name has succeeded and returned a header of Type K.
C1_Witness ==
    /\ LoadOfInsertedName
    /\ last.result.Res
    /\ last.result.Type = U32(ChunkTypeOfMap(last.map))
    /\ last.deserialized.Res

\* C2: for every map and every name that is not a key of it, LoadResourceData
\* returns false (NotFound), without a read of the byte source and without a
\* call of the deserializer.
C2_MissIsNotFound ==
    (last.op = "LoadResourceData" /\ last.name \notin DOMAIN archive.m_ResMap[last.map]) =>
        /\ last.result.Res = FALSE
        /\ ErrorKind(last.result.Log) = "NotFound"
        /\ last.result.Reads = 0
        /\ last.result.Deserialize = 0

\* A call for a name that is in no map has failed, in an archive whose map
\* has other names.
C2_Witness ==
    /\ last.op = "LoadResourceData"
    /\ last.name \notin DOMAIN archive.m_ResMap[last.map]
    /\ DOMAIN archive.m_ResMap[last.map] # {}
    /\ ~last.result.Res

\* The call last records read a header whose Type is not the chunk type of
\* the map it was given.
TagMismatch(l) ==
    /\ l.op = "LoadResourceData"
    /\ l.read = "ok"
    /\ l.result.Type # U32(ChunkTypeOfMap(l.map))

\* C3: a LoadResourceData call for a resource whose stored header carries
\* another Type than the expected chunk type fails (CorruptData) and leaves
\* the archive as it was: LoadResourceData for every name of every map gives
\* after the call what it gave before it.
C3_TagMismatchFailsAlone ==
    [][TagMismatch(last') =>
         /\ last'.result.Res = FALSE
         /\ ErrorKind(last'.result.Log) = "CorruptData"
         /\ last'.result.Deserialize = 0
         /\ archive' = archive
         /\ \A m \in ResMapNames, nm \in Names, readOk \in BOOLEAN, d \in DeserializeOutcomes :
              LoadResourceData(archive', archive'.m_ResMap[m], nm, ChunkTypeOfMap(m), readOk, d)
                = LoadResourceData(archive, archive.m_ResMap[m], nm, ChunkTypeOfMap(m), readOk, d)]_vars

\* A call has failed on a header of another Type, in a map with another
\* resource that can be loaded.
C3_Witness ==
    /\ TagMismatch(last)
    /\ ~last.result.Res
    /\ last.result.Log = "Invalid chunk header"
    /\ \E nm \in DOMAIN archive.m_ResMap[last.map] \ {last.name} :
         LoadResourceData(archive, archive.m_ResMap[last.map], nm, ChunkTypeOfMap(last.map),
                          TRUE, [Res |-> TRUE, Ended |-> TRUE]).Res

\* The offset and the size the header of the call stores for its device type.
StoredOffset(l) == l.Header.DeviceSpecificDataOffset[l.DevType + 1]
StoredSize(l) == l.Header.DeviceSpecificDataSize[l.DevType + 1]

\* C4: for any backend B and header R whose stored offset for B is the
\* sentinel 0xFFFFFFFF, GetDeviceSpecificData(B, R) returns an empty result
\* and reports no error.
C4_SentinelGivesEmpty ==
    (last.op = "GetDeviceSpecificData" /\ StoredOffset(last) = <<255, 255, 255, 255>>) =>
        /\ last.result.Data = <<>>
        /\ last.result.Error = ""
        /\ last.result.Reads = 0

\* A call for a backend the header has no data for has returned, the header
\* having data for another backend.
C4_Witness ==
    /\ last.op = "GetDeviceSpecificData"
    /\ StoredOffset(last) = <<255, 255, 255, 255>>
    /\ \E d \in DeviceTypes : last.Header.DeviceSpecificDataOffset[d + 1] # <<255, 255, 255, 255>>
    /\ last.result.Data = <<>>

\* The block of the device type of the call, and whether the bytes the
\* header refers to lie in it.
BlockOfCall(l) == archive.m_DeviceSpecific[GetBlockOffsetType(l.DevType) + 1]
InBlock(l) ==
    /\ IsValid(BlockOfCall(l))
    /\ IsSmall(StoredOffset(l)) /\ IsSmall(StoredSize(l))
    /\ Val(StoredOffset(l)) + Val(StoredSize(l)) <= Val(BlockOfCall(l).Size)

\* The bytes of the archive at GetBaseOffset(block offset type) + offset.
ArchiveBytesOfCall(l) ==
    Slice(archive.m_pArchive,
          Val(GetBaseOffset(archive, GetBlockOffsetType(l.DevType))) + Val(StoredOffset(l)),
          Val(StoredSize(l)))

\* The archive with the one signature "SigA", as constructed, and a call
\* with the header of that signature.
SigAScenario(DevType) ==
    /\ last.op = "GetDeviceSpecificData"
    /\ archive.m_pArchive = ValidArchives[1] /\ ~dirty
    /\ last.Header = LoadedHeader(archive, "Sign", SigA)
    /\ last.DevType = DevType

\* C5 as stated: for any header H and backend B with H.GetOffset(B) #
\* 0xFFFFFFFF, GetDeviceSpecificData(B, H) returns exactly H.GetSize(B) bytes,
\* the bytes of the archive at GetBaseOffset(block offset type of B) +
\* H.GetOffset(B).
C5_AlwaysReturnsTheBytes ==
    (last.op = "GetDeviceSpecificData" /\ StoredOffset(last) # <<255, 255, 255, 255>>) =>
        /\ Len(last.result.Data) = Val(StoredSize(last))
        /\ IsSmall(GetBaseOffset(archive, GetBlockOffsetType(last.DevType)))
        /\ ReadFits(archive.m_pArchive,
                    Val(GetBaseOffset(archive, GetBlockOffsetType(last.DevType)))
                      + Val(StoredOffset(last)), Val(StoredSize(last)))
        /\ last.result.Data = ArchiveBytesOfCall(last)

\* C5: for any header H and backend B with H.GetOffset(B) # 0xFFFFFFFF whose
\* bytes lie in the block of B, GetDeviceSpecificData(B, H) returns, unless
\* the read of the archive fails, exactly H.GetSize(B) bytes: the bytes of the
\* block at H.GetOffset(B), which for a block that was not loaded to memory
\* are the bytes of the archive at GetBaseOffset(block offset type of B) +
\* H.GetOffset(B); otherwise it returns an empty result and reports an
\* error.  For the signature present for Vulkan only with offset 100 and
\* size 50 it returns those 50 bytes for Vulkan and an empty result for
\* Direct3D12.
C5_ReturnsTheBytesInBlock ==
    /\ (last.op = "GetDeviceSpecificData" /\ StoredOffset(last) # <<255, 255, 255, 255>>) =>
         IF InBlock(last) /\ last.read # "failed"
         THEN /\ last.result.Error = ""
              /\ Len(last.result.Data) = Val(StoredSize(last))
              /\ last.result.Data = Slice(BlockBytes(archive, BlockOfCall(last)),
                                          Val(StoredOffset(last)), Val(StoredSize(last)))
              /\ BlockOfCall(last).Memory = <<>> => last.result.Data = ArchiveBytesOfCall(last)
         ELSE /\ last.result.Data = <<>>
              /\ ErrorKind(last.result.Error) =
                   IF InBlock(last) THEN "IOFailure" ELSE "CorruptData"
    /\ (SigAScenario(Vulkan) /\ last.read # "failed") =>
         /\ StoredOffset(last) = U32(100) /\ StoredSize(last) = U32(50)
         /\ Len(last.result.Data) = 50
         /\ last.result.Data = ArchiveBytesOfCall(last)
    /\ SigAScenario(Direct3D12) => last.result.Data = <<>> /\ last.result.Error = ""

\* The 50 bytes of the signature have been returned for Vulkan.
C5_Witness ==
    /\ SigAScenario(Vulkan)
    /\ StoredOffset(last) = U32(100)
    /\ Len(last.result.Data) = 50
    /\ last.result.Data = ArchiveBytesOfCall(last)

\* C6: after RemoveDeviceData(B), until an AppendDeviceData for B, the offset
\* every resource of every kind stores for B is the sentinel 0xFFFFFFFF and
\* every call GetDeviceSpecificData(B, .) returns an empty result.
C6_RemovedStaysEmpty ==
    \A B \in removed :
        /\ \A r \in DeviceResources(archive) :
             StoredHeader(archive, r[1], r[2]).DeviceSpecificDataOffset[B + 1]
               = <<255, 255, 255, 255>>
        /\ archive.m_ShadersHeader.DeviceSpecificDataOffset[B + 1] = <<255, 255, 255, 255>>
        /\ \A Header \in HeadersOf(archive), readOk \in BOOLEAN :
             GetDeviceSpecificData(archive, B, Header, readOk).Data = <<>>
        /\ (last.op = "GetDeviceSpecificData" /\ last.DevType = B) => last.result.Data = <<>>

\* Vulkan was removed from an archive that had Vulkan data, device data of
\* another backend was appended after it, and a call for Vulkan has returned
\* an empty result.
C6_Witness ==
    /\ Vulkan \in removed
    /\ edits = 2
    /\ IsValid(archive.m_DeviceSpecific[GetBlockOffsetType(Direct3D12) + 1])
    /\ archive.m_DeviceSpecific[GetBlockOffsetType(Direct3D12) + 1].Memory # <<>>
    /\ last.op = "GetDeviceSpecificData" /\ last.DevType = Vulkan
    /\ last.Header \in {LoadedHeader(archive, "Sign", SigA)}
    /\ StoredOffset(last) # <<255, 255, 255, 255>>
    /\ last.result.Data = <<>>

\* C7: after AppendDeviceData(source, B), for every resource R of source,
\* GetDeviceSpecificData(B, R) on the destination returns the bytes that
\* GetDeviceSpecificData(B, R) returns on source, also when the destination
\* held data for B before.
C7_AppendedDataIsTheSources ==
    (last.op = "AppendDeviceData" /\ last.ok) =>
        \A r \in DeviceResources(Sources[last.src]) :
            /\ r[2] \in DOMAIN archive.m_ResMap[r[1]]
            /\ GetDeviceSpecificData(archive, last.Dev,
                                     StoredHeader(archive, r[1], r[2]), TRUE).Data
                 = GetDeviceSpecificData(Sources[last.src], last.Dev,
                                         StoredHeader(Sources[last.src], r[1], r[2]), TRUE).Data
            /\ GetDeviceSpecificData(archive, last.Dev,
                                     StoredHeader(archive, r[1], r[2]), TRUE).Error = ""

\* Device data was appended to an archive that held data for the backend,
\* and the source has a resource with data for it.
C7_Witness ==
    /\ last.op = "AppendDeviceData" /\ last.ok
    /\ IsValid(last.before)
    /\ \E r \in DeviceResources(Sources[last.src]) :
         GetDeviceSpecificData(archive, last.Dev,
                               StoredHeader(archive, r[1], r[2]), TRUE).Data # <<>>

\* The regions of the shaders of device type d, in the order the shaders
\* were written to the archive the threads read.
WrittenShaderRegions(d) ==
    LET desc == Descriptions[CHOOSE i \in DOMAIN Sources : Sources[i] = archive]
    IN  [k \in 1..Len(desc.Sh[d + 1]) |->
           [Offset |-> U32(ShaderOffset(desc, d + 1, k)), Size |-> U32(desc.Sh[d + 1][k])]]

\* Every call that has returned has returned the regions as written.
SameListToAll ==
    /\ \A t \in Threads :
         (calls[t] > 0 /\ pc[t] = "idle") => ret[t] = WrittenShaderRegions(dev[t])
    /\ \A d \in DeviceTypes :
         m_ShaderRegions[d].Regions # <<>> =>
             m_ShaderRegions[d].Regions = WrittenShaderRegions(d)

C9_RoundTrip ==
    [][(last'.op = "Reopen" /\ last'.fresh) =>
         /\ last'.ok
         /\ archive'.m_ResMap = archive.m_ResMap
         /\ archive'.m_BaseOffsets = archive.m_BaseOffsets]_vars

\* An archive written by Serialize after an edit was constructed,
\* serialized and constructed again.
C9_Witness ==
    /\ last.op = "Reopen" /\ last.fresh /\ last.ok
    /\ edits > 0
    /\ \E m \in ResMapNames : DOMAIN archive.m_ResMap[m] # {}
    /\ \E d \in 1..BlockOffsetTypeCount : archive.m_BaseOffsets[d] # <<255, 255, 255, 255>>

\* C10: construction fails with a FormatError whenever the magic number of
\* the header differs from 0xDE00000A, be it by one bit, or its version
\* differs from 2, and then there is no archive object: no call of a reader
\* returns.
C10_BadMagicOrVersionFails ==
    /\ (/\ last.op = "Construct"
        /\ \/ U32At(InputBytes(last.in), 0) # <<10, 0, 0, 222>>
           \/ U32At(InputBytes(last.in), 4) # <<2, 0, 0, 0>>) =>
         /\ ~last.ok
         /\ last.Error \in {"Archive header magic number is incorrect",
                            "Archive version is not supported"}
         /\ ErrorKind(last.Error) = "FormatError"
         /\ archive = NoObject
    /\ ~archive.ok => last.op \in {"none", "Construct", "Reopen"}

\* The construction from an archive with one bit of the magic number
\* flipped has failed.
C10_Witness ==
    /\ last.op = "Construct" /\ last.in.kind = "magic"
    /\ ~last.ok
    /\ last.Error = "Archive header magic number is incorrect"
    /\ archive = NoObject

\* C11 as stated: LoadResourceData fails with CorruptData whenever the
\* kind-specific deserializer does not consume exactly all bytes of the
\* resource's region after the header; trailing unconsumed bytes never lead
\* to a successful result.
C11_TrailingBytesFail ==
    (/\ last.op = "LoadResourceData"
     /\ last.result.Deserialize = 1
     /\ ~last.deserialized.Ended) =>
        /\ last.result.Res = FALSE
        /\ ErrorKind(last.result.Log) = "CorruptData"

\* What the call does when Deserialize leaves bytes unconsumed: the check of
\* Ser.IsEnded() fails, nothing is logged by the call and the value
\* Deserialize returned is returned.
C11_TrailingBytesReturnDeserialized ==
    (/\ last.op = "LoadResourceData"
     /\ last.result.Deserialize = 1
     /\ ~last.deserialized.Ended) =>
        /\ last.result.VerifyFailed
        /\ last.result.Res = last.deserialized.Res
        /\ ErrorKind(last.result.Log) = "None"

\* Deserialize returned true with bytes left over and the call succeeded.
C11_Witness ==
    /\ last.op = "LoadResourceData"
    /\ last.result.Deserialize = 1
    /\ ~last.deserialized.Ended
    /\ last.deserialized.Res
    /\ last.result.Res

\* A step that is a LoadResourceData call whose IArchive::Read failed.
ReadFailedStep ==
    /\ last'.op = "LoadResourceData"
    /\ last'.read = "failed"

\* C12: when IArchive::Read fails during LoadResourceData the call returns
\* false: Read was issued exactly once, Deserialize was not invoked, and
\* the archive, the serialized stream and the shader-region caches are as
\* they were before the call.  A Read that is made to fail fails the call
\* for every name of every map.
C12_ReadFailureFailsAtOnce ==
    [][ReadFailedStep =>
          /\ last'.result.Res = FALSE
          /\ ErrorKind(last'.result.Log) = "IOFailure"
          /\ last'.result.Reads = 1
          /\ last'.result.Deserialize = 0
          /\ archive' = archive
          /\ stream' = stream
          /\ m_ShaderRegions' = m_ShaderRegions
          /\ \A d \in DeserializeOutcomes :
                LET R == LoadResourceData(archive, archive.m_ResMap[last'.map], last'.name,
                                          ChunkTypeOfMap(last'.map), FALSE, d)
                IN  R = last'.result]_vars

\* A call for a name of the map has returned after its read failed.
C12_Witness ==
    /\ last.op = "LoadResourceData"
    /\ last.read = "failed"
    /\ last.name \in DOMAIN archive.m_ResMap[last.map]
    /\ last.result.Reads = 1

\* The members of the archive that make up its index: the base offsets, the
\* chunk list, the region maps, the shaders header and the blocks.
IndexState(A) ==
    <<A.m_BaseOffsets, A.m_Chunks, A.m_ResMap, A.m_ShadersHeader,
      A.m_CommonData, A.m_DeviceSpecific>>

EditStep ==
    /\ last'.op \in {"RemoveDeviceData", "AppendDeviceData"}
    /\ last'.ok

\* C14: RemoveDeviceData(B) and AppendDeviceData(src, B) leave, for every
\* other backend B' and every resource of the archive, the size and offset
\* stored for B' unchanged (also in the shaders header), and
\* GetDeviceSpecificData(B', .) returns for every header the bytes it
\* returned before the edit.
C14_OtherBackendsUntouched ==
    [][EditStep =>
         \A D \in DeviceTypes \ {last'.Dev} :
            /\ \A r \in DeviceResources(archive) :
                 /\ GetSize(StoredHeader(archive', r[1], r[2]), D)
                      = GetSize(StoredHeader(archive, r[1], r[2]), D)
                 /\ GetOffset(StoredHeader(archive', r[1], r[2]), D)
                      = GetOffset(StoredHeader(archive, r[1], r[2]), D)
            /\ GetSize(archive'.m_ShadersHeader, D) = GetSize(archive.m_ShadersHeader, D)
            /\ GetOffset(archive'.m_ShadersHeader, D) = GetOffset(archive.m_ShadersHeader, D)
            /\ GetBaseOffset(archive', GetBlockOffsetType(D))
                 = GetBaseOffset(archive, GetBlockOffsetType(D))
            /\ \A h \in HeadersOf(archive) \cup HeadersOf(archive') :
                 LET Before == GetDeviceSpecificData(archive, D, h, TRUE)
                     After  == GetDeviceSpecificData(archive', D, h, TRUE)
                 IN  After.Data = Before.Data /\ After.Error = Before.Error]_vars

\* An edit of one backend was carried out on an archive that has a resource
\* with bytes for another backend.
C14_Witness ==
    /\ last.op \in {"RemoveDeviceData", "AppendDeviceData"}
    /\ last.ok
    /\ \E D \in DeviceTypes \ {last.Dev} : \E r \in DeviceResources(archive) :
         /\ GetOffset(StoredHeader(archive, r[1], r[2]), D) # InvalidOffset
         /\ GetDeviceSpecificData(archive, D, StoredHeader(archive, r[1], r[2]), TRUE).Data # <<>>

\* A step that is an AppendDeviceData call that was carried out.
AppendStep ==
    /\ last'.op = "AppendDeviceData"
    /\ last'.ok

\* C15: after AppendDeviceData(source, B) the names of every map of the
\* destination are its previous names and the names of the source.  A
\* resource that was in both keeps its region, its Type and the size and
\* offset of every backend other than B, and has for B the bytes the source
\* has for it; a resource that was only in the source is inserted with the
\* source's Type and description and the source's bytes for B.
C15_AppendMergesNames ==
    [][AppendStep =>
         LET S == Sources[last'.src]
             B == last'.Dev
         IN  /\ \A m \in ResMapNames :
                  DOMAIN archive'.m_ResMap[m] = DOMAIN archive.m_ResMap[m] \cup DOMAIN S.m_ResMap[m]
             /\ \A r \in AllResources(archive) :
                  archive'.m_ResMap[r[1]][r[2]] = archive.m_ResMap[r[1]][r[2]]
             /\ \A r \in DeviceResources(archive) :
                  LET Old == StoredHeader(archive, r[1], r[2])
                      New == StoredHeader(archive', r[1], r[2])
                  IN  /\ New.Type = Old.Type
                      /\ \A D \in DeviceTypes \ {B} :
                           GetSize(New, D) = GetSize(Old, D) /\ GetOffset(New, D) = GetOffset(Old, D)
                      /\ IF r \in DeviceResources(S)
                         THEN GetDeviceSpecificData(archive', B, New, TRUE).Data
                                = GetDeviceSpecificData(S, B, StoredHeader(S, r[1], r[2]), TRUE).Data
                         ELSE GetSize(New, B) = GetSize(Old, B) /\ GetOffset(New, B) = GetOffset(Old, B)
             /\ \A r \in DeviceResources(S) \ DeviceResources(archive) :
                  LET Src == StoredHeader(S, r[1], r[2])
                      New == StoredHeader(archive', r[1], r[2])
                  IN  /\ New.Type = Src.Type
                      /\ archive'.m_ResMap[r[1]][r[2]].Size = S.m_ResMap[r[1]][r[2]].Size
                      /\ GetDeviceSpecificData(archive', B, New, TRUE).Data
                           = GetDeviceSpecificData(S, B, Src, TRUE).Data]_vars

\* An append was carried out after which a resource of the source has in
\* the destination another size for another backend than it has in the
\* source, and a map of the destination has names the source does not have.
C15_Witness ==
    /\ last.op = "AppendDeviceData"
    /\ last.ok
    /\ LET S == Sources[last.src]
       IN  /\ \E r \in DeviceResources(S) \cap DeviceResources(archive) :
                \E D \in DeviceTypes \ {last.Dev} :
                    GetSize(StoredHeader(archive, r[1], r[2]), D)
                       # GetSize(StoredHeader(S, r[1], r[2]), D)
           /\ \E m \in ResMapNames :
                /\ DOMAIN S.m_ResMap[m] # {}
                /\ DOMAIN archive.m_ResMap[m] # DOMAIN S.m_ResMap[m]

\* The data headers of the archive: PRSDataHeader and PSODataHeader of the
\* resources, and the ShadersDataHeader.
DataHeadersOf(A) ==
    IF ~A.ok THEN {}
    ELSE {StoredHeader(A, r[1], r[2]) : r \in DeviceResources(A)} \cup {A.m_ShadersHeader}

\* C16: every fixed header of the format has a size that is a multiple of 8
\* and equals its declared constant (ArchiveHeader 40, ChunkHeader 16,
\* NamedResourceArrayHeader 8, DataHeaderBase with PRSDataHeader,
\* PSODataHeader and ShadersDataHeader 56, RPDataHeader 8), which is the sum
\* of its 32-bit fields with 6 slots per array of backends.
C16_HeaderSizes ==
    /\ ArchiveHeaderSize = 40 /\ ChunkHeaderSize = 16 /\ NamedResourceArrayHeaderSize = 8
    /\ DataHeaderBaseSize = 56 /\ RPDataHeaderSize = 8
    /\ \A Size \in {ArchiveHeaderSize, ChunkHeaderSize, NamedResourceArrayHeaderSize,
                    DataHeaderBaseSize, RPDataHeaderSize} : Size % 8 = 0
    /\ DeviceTypeCount = 6 /\ BlockOffsetTypeCount = 6
    /\ ArchiveHeaderSize = 4 * (2 + BlockOffsetTypeCount + 2)
    /\ ChunkHeaderSize = 4 * 4
    /\ NamedResourceArrayHeaderSize = 4 * 2
    /\ DataHeaderBaseSize = 4 * (2 + DeviceTypeCount + DeviceTypeCount)
    /\ RPDataHeaderSize = 4 * 2
    /\ \A t \in ChunkTypes :
         /\ Len(DataHeaderBaseBytes(DataHeaderBase(U32(t)))) = DataHeaderBaseSize
         /\ Len(ChunkHeaderBytes(ChunkHeader(U32(t), U32(0), U32(0)))) = ChunkHeaderSize
    /\ Len(RPDataHeaderBytes(U32(RenderPass))) = RPDataHeaderSize
    /\ Len(NamedResourceArrayBytes(<<>>, <<>>)) = NamedResourceArrayHeaderSize
    /\ archive.ok =>
         /\ Len(ArchiveHeaderBytes(ReadArchiveHeader(archive.m_pArchive))) = ArchiveHeaderSize
         /\ \A i \in 1..Len(archive.m_Chunks) :
              Len(ChunkHeaderBytes(archive.m_Chunks[i])) = ChunkHeaderSize
         /\ \A h \in DataHeadersOf(archive) : Len(DataHeaderBaseBytes(h)) = DataHeaderBaseSize

\* An archive that was edited holds signature and pipeline headers with data
\* for a backend, several chunk headers and a render pass.
C16_Witness ==
    /\ archive.ok /\ dirty
    /\ Len(archive.m_Chunks) >= 3
    /\ DOMAIN archive.m_ResMap["RenderPass"] # {}
    /\ \E h \in DataHeadersOf(archive) :
         /\ h.Type = U32(GraphicsPipelineStates)
         /\ \E d \in DeviceTypes : GetOffset(h, d) # InvalidOffset
         /\ Len(DataHeaderBaseBytes(h)) = 56

\* Thread t is inside GetShaderRegions and holds the lock of its device type.
HoldsMtx(t) == pc[t] \in {"check", "compute", "unlock"}

\* A thread that waits for the lock of backend B can take it whenever no
\* thread holds the lock of B, whichever locks of other backends are held.
NoFalseContention ==
    \A t \in Threads :
        (/\ pc[t] = "lock"
         /\ \A u \in Threads \ {t} : HoldsMtx(u) => dev[u] # dev[t])
            => ENABLED LockMtx(t)

\* C17: the shader-region cache has one lock per backend: a thread that
\* holds the lock of backend A while it computes GetShaderRegions(A) never
\* blocks a thread calling GetShaderRegions(B) for another backend B, and
\* under fair scheduling every GetShaderRegions call returns.
C17_PerBackendLock ==
    /\ []NoFalseContention
    /\ \A t \in Threads : (pc[t] # "idle") ~> (pc[t] = "idle")

\* One thread computes the regions of a backend under its lock while another
\* thread holds the lock of another backend.
C17_Witness ==
    \E t, u \in Threads :
        /\ pc[t] = "compute" /\ HoldsMtx(u)
        /\ dev[t] # dev[u]

\* C18: in every reachable state the chunk list of the archive has at most
\* one chunk of each type: after construction, also from a file in which a
\* chunk header is repeated, and after any sequence of RemoveDeviceData and
\* AppendDeviceData, no two entries of GetChunks() have the same Type.
C18_OneChunkPerType ==
    archive.ok =>
        \A i, j \in 1..Len(GetChunks(archive)) :
            i # j => GetChunks(archive)[i].Type # GetChunks(archive)[j].Type

\* AppendDeviceData has added chunks of the source to the chunk list of an
\* archive that already had a chunk of a type the source has as well.
C18_Witness ==
    /\ last.op = "AppendDeviceData" /\ last.ok
    /\ Len(GetChunks(archive)) > Len(GetChunks(Sources[last.src]))
    /\ \E i \in 1..Len(GetChunks(archive)) :
         /\ GetChunks(archive)[i].Type = U32(ResourceSignature)
         /\ \E j \in 1..Len(GetChunks(Sources[last.src])) :
              GetChunks(Sources[last.src])[j].Type = U32(ResourceSignature)

\* The bytes of the backing archive at [off, off + size) of block b.
BackingBytes(A, b, off, size) == Slice(A.m_pArchive, Val(b.Offset) + off, size)

\* The block has been loaded to memory.
Materialized(b) == b.Memory # <<>>

\* C19: Read of an ArchiveBlock is served from the copy in memory once
\* LoadToMemory has succeeded, and from the backing archive before; Write
\* succeeds only on a block that has been loaded to memory, and a Write on a
\* block that has not been is rejected and leaves the block and the backing
\* archive unchanged.  Neither call ever changes the backing archive.
C19_BlockReadWrite ==
    [][/\ archive'.m_pArchive = archive.m_pArchive
       /\ (last'.op = "LoadToMemory" /\ last'.ok) =>
             LET b == BlockOf(archive', last'.id)
             IN  /\ Materialized(b)
                 /\ ~Materialized(BlockOf(archive, last'.id)) =>
                       b.Memory = BackingBytes(archive, b, 0, Val(b.Size))
       /\ (last'.op = "Read" /\ last'.ok) =>
             LET b == BlockOf(archive, last'.id)
             IN  /\ archive' = archive
                 /\ last'.data = IF Materialized(b)
                                 THEN Slice(b.Memory, last'.off, last'.size)
                                 ELSE BackingBytes(archive, b, last'.off, last'.size)
       /\ (last'.op = "Write" /\ last'.ok) =>
             /\ Materialized(BlockOf(archive, last'.id))
             /\ Slice(BlockOf(archive', last'.id).Memory, last'.off, Len(last'.data)) = last'.data
       /\ (last'.op = "Write" /\ ~Materialized(BlockOf(archive, last'.id))) =>
             /\ ~last'.ok
             /\ archive' = archive]_vars

\* A Read of a block that was loaded to memory and written to has returned
\* the bytes written, which are not the bytes of the backing archive.
C19_Witness ==
    /\ last.op = "Read" /\ last.ok
    /\ Materialized(BlockOf(archive, last.id))
    /\ last.data = <<170, 187>>
    /\ last.data # BackingBytes(archive, BlockOf(archive, last.id), last.off, last.size)

\* A Write to a block that was not loaded to memory has been rejected.
C19_RejectedWrite ==
    /\ last.op = "Write" /\ ~last.ok
    /\ ~Materialized(BlockOf(archive, last.id))
    /\ IsValid(BlockOf(archive, last.id))

\* C20: LoadResourceData performs its steps in a fixed order and stops at
\* the first failure: the byte source is read only after the name was found
\* in the map; the Type of the header is looked at only after the read of
\* Region.Size bytes at Region.Offset succeeded, and is the Type stored
\* there; Deserialize is invoked only after the Type was found equal to the
\* expected chunk type; and the call returns true only if Deserialize
\* returned true.
C20_StepsInOrder ==
    last.op = "LoadResourceData" =>
        LET R      == last.result
            Map    == archive.m_ResMap[last.map]
            Found  == last.name \in DOMAIN Map
        IN  /\ R.Reads \in {0, 1} /\ R.Deserialize \in {0, 1}
            /\ R.Reads = 1 <=> Found
            /\ R.Type # NoHeader =>
                 /\ R.Reads = 1
                 /\ ErrorKind(R.Log) # "IOFailure"
                 /\ ReadFits(archive.m_pArchive, Val(Map[last.name].Offset),
                             Val(Map[last.name].Size))
                 /\ R.Type = U32At(Slice(archive.m_pArchive, Val(Map[last.name].Offset),
                                         Val(Map[last.name].Size)), 0)
            /\ R.Deserialize = 1 =>
                 /\ R.Type # NoHeader
                 /\ R.Type = U32(ChunkTypeOfMap(last.map))
            /\ R.Log # "" => (~R.Res /\ R.Deserialize = 0)
            /\ R.Res => (R.Deserialize = 1 /\ last.deserialized.Res)

\* A call found the name, read the region, found the expected Type and
\* returned false because Deserialize returned false.
C20_Witness ==
    /\ last.op = "LoadResourceData"
    /\ last.result.Reads = 1
    /\ last.result.Type = U32(ChunkTypeOfMap(last.map))
    /\ last.result.Deserialize = 1
    /\ ~last.deserialized.Res
    /\ ~last.result.Res

\* C21: a newly constructed DataHeaderBase (PRSDataHeader, PSODataHeader,
\* ShadersDataHeader) reports every one of the 6 backends as absent:
\* GetOffset(D) is 0xFFFFFFFF and GetSize(D) is 0 for every device type D;
\* SetSize(D, .) and SetOffset(D, .) store the value in the slot of D and
\* leave the slots of every other device type, the other array and the Type
\* unchanged.
C21_FreshHeaderAndSetters ==
    /\ Cardinality(DeviceTypes) = 6
    /\ last.op = "DataHeaderBase" =>
         \A D \in DeviceTypes :
            /\ GetOffset(last.Header, D) = <<255, 255, 255, 255>>
            /\ GetSize(last.Header, D) = <<0, 0, 0, 0>>
    /\ last.op \in {"SetSize", "SetOffset"} =>
         /\ last.Header.Type = last.Before.Type
         /\ \A D \in DeviceTypes \ {last.DevType} :
              /\ GetSize(last.Header, D) = GetSize(last.Before, D)
              /\ GetOffset(last.Header, D) = GetOffset(last.Before, D)
    /\ last.op = "SetSize" =>
         /\ GetSize(last.Header, last.DevType) = last.Value
         /\ GetOffset(last.Header, last.DevType) = GetOffset(last.Before, last.DevType)
    /\ last.op = "SetOffset" =>
         /\ GetOffset(last.Header, last.DevType) = last.Value
         /\ GetSize(last.Header, last.DevType) = GetSize(last.Before, last.DevType)

\* SetOffset was called for one device type on a header that already had a
\* size for another device type.
C21_Witness ==
    /\ last.op = "SetOffset"
    /\ last.Value = U32(100)
    /\ \E D \in DeviceTypes \ {last.DevType} : GetSize(last.Header, D) = U32(8)
    /\ \E D \in DeviceTypes \ {last.DevType} : GetOffset(last.Header, D) = InvalidOffset

\* C22 as stated: for every data header and device type D, GetEndOffset(D)
\* is not below GetOffset(D): the unsigned 32-bit sum GetOffset(D) +
\* GetSize(D) never wraps around modulo 2^32, also for a backend whose
\* offset is the sentinel 0xFFFFFFFF.
C22_EndOffsetNeverWraps ==
    \A D \in DeviceTypes :
        ~LessU32(GetEndOffset(last.Header, D), GetOffset(last.Header, D))

\* What GetEndOffset returns: the sum modulo 2^32.  It is the sum itself for
\* small offsets and sizes and the sentinel for an absent backend (offset
\* 0xFFFFFFFF, size 0); with the sentinel as offset and a size that is not 0
\* it is the size minus one, which is below the offset.
C22_EndOffsetIsSumModulo ==
    \A D \in DeviceTypes :
        LET Offset == GetOffset(last.Header, D)
            Size   == GetSize(last.Header, D)
            End    == GetEndOffset(last.Header, D)
        IN  /\ (IsSmall(Offset) /\ IsSmall(Size)) =>
                 (IsSmall(End) /\ Val(End) = Val(Offset) + Val(Size))
            /\ Size = U32(0) => End = Offset
            /\ (Offset = <<255, 255, 255, 255>> /\ IsSmall(Size) /\ Size # U32(0)) =>
                 (End = U32(Val(Size) - 1) /\ LessU32(End, Offset))
            /\ (Offset = <<248, 255, 255, 255>> /\ Size = U32(8)) => End = U32(0)

\* A header whose offset for a device type is the sentinel has been given a
\* size of 8 for it, and its end offset is 7.
C22_Witness ==
    /\ last.op = "SetSize"
    /\ GetOffset(last.Header, last.DevType) = <<255, 255, 255, 255>>
    /\ GetSize(last.Header, last.DevType) = U32(8)
    /\ GetEndOffset(last.Header, last.DevType) = U32(7)

====
